---------------------------- MODULE Spec2Model ----------------------------
(***************************************************************************)
(* Rufus robot: the hardware gesture and idle-animation coordination.      *)
(*                                                                         *)
(* The repository holds three entry points that drive the servos:          *)
(*   "rufus"  src/rufus.py          main loop + idle thread + lock flag    *)
(*   "bot"    src/src/*.py          RufusBot / GestureController /         *)
(*                                  ArduinoController                      *)
(*   "api"    src/pi_api_server.py  Flask handlers (threaded server)       *)
(* The variable `program` says which one was launched; every action is     *)
(* guarded by it.  Further values apply one part of the code on its own:   *)
(*   "clamp"         the clamping steps of the idle movements              *)
(*   "detect"        ArduinoController._detect_port                        *)
(*   "serial"        the serial input buffer of pi_api_server.py           *)
(*   "conversation"  ConversationManager (src/src/conversation.py)         *)
(*   "memory"        add_to_memory / clear_memory of src/rufus.py          *)
(***************************************************************************)
EXTENDS Integers, Sequences, FiniteSets, TLC

VARIABLES
    program,                \* which entry point is running
    \* ---- src/rufus.py ----
    arduino,                \* the serial object: "unopened", "none" (None), "open", "closed"
    idle_animation_running, \* global flag, rufus.py:52
    idle_thread,            \* global, rufus.py:53: "none" or "started"
    conversation_locked,    \* global flag, rufus.py:54
    pc,                     \* [thread -> label]: position of main and of the idle thread
    cmd,                    \* [thread -> command]: argument of the send_command in progress
    ret,                    \* [thread -> label]: where that send_command returns to
    slices,                 \* remaining 0.1 s slices of the idle thread's interval sleep
    idle_servo,             \* the servo the idle thread drew for its current movement
    answer,                 \* the AI answer of the current response cycle
    movements,              \* natural_movements: the movements still to execute
    failure,                \* observation: last failure handled inside the current cycle
    wire,                   \* observation: the last line written to the serial port
    \* ---- src/src: ArduinoController, GestureController, RufusBot ----
    connection,             \* ArduinoController.connection: "unopened", "none", "open", "closed"
    gc_running,             \* GestureController.idle_animation_running
    gc_thread,              \* GestureController.idle_animation_thread: "none" or "started"
    gc_orphans,             \* loops still running on a thread idle_animation_thread no longer names
    bot_pc,                 \* [thread -> label]: the caller ("main") and the idle thread
    bot_ret,                \* where stop_idle_animations returns to
    bot_steps,              \* the commands the gesture in progress still has to send
    bot_servo,              \* natural_movement of the idle thread: <<servo, new_angle>>
    bot_op,                 \* observation: the operation the caller invoked last
    bot_result,             \* observation: what it returned ("pending" while it runs)
    bot_writes,             \* observation: lines it has written
    bot_failed,             \* observation: has a send of it returned False
    bot_wire,               \* observation: the last line written to the serial port
    \* ---- src/pi_api_server.py ----
    api_arduino,            \* global arduino: "unopened", "none" (None) or "open"
    api_init,               \* init_arduino: what it read and returned, until the server runs
    api_pc,                 \* [handler -> label]: "idle" or "gesture" (inside perform_gesture)
    api_req,                \* [handler -> request]: the request being (or last) served
    api_seq,                \* [handler -> steps]: what perform_gesture still has to send
    api_result,             \* [handler -> value]: the 'success' of the response
    api_wrote,              \* observation: [handler -> has its request written a line]
    api_failed,             \* observation: [handler -> has a send of its request returned False]
    api_ack,                \* observation: [handler -> what the send of its servo request read]
    api_wire,               \* observation: the last line written to the serial port
    \* ---- the clamping step of an idle movement, applied on its own ----
    clamp_loop,             \* whose step: "idle_animation_loop" or "natural_movement"
    clamp_servo,            \* the servo drawn
    clamp_arg,              \* new_pos / new_angle before the clamping line
    clamp_res,              \* new_pos / new_angle after it
    clamp_done,             \* has the clamping line run
    \* ---- ArduinoController._detect_port, applied on its own ----
    detect_ports,           \* serial.tools.list_ports.comports(): the ports, in order
    detect_pref,            \* preferred_port
    detect_res,             \* the port it returned ("" before it has run)
    detect_done,            \* has it run
    \* ---- the serial input buffer of pi_api_server.py, on its own ----
    ser_pc,                 \* "init" before init_arduino, "serving" after it, "off" with arduino None
    in_waiting,             \* the lines in the input buffer, oldest first, each with what it answers
    ser_sent,               \* commands written so far
    ser_pending,            \* commands whose reply the device has not sent yet
    ser_ack,                \* observation: what the last send read as its acknowledgment
    \* ---- src/src/conversation.py: ConversationManager, on its own ----
    messages,               \* self.messages: entries [role, turn], turn the call that added it
    conv_calls,             \* get_response calls made so far
    conv_removed,           \* observation: the entries the last call's trim removed, or <<>>
    conv_result,            \* observation: what the last call returned: "message", "None" or "none"
    \* ---- src/rufus.py: the conversation memory, on its own ----
    conversation_history,   \* global list, rufus.py:91: entries [role, content]
    mem_log                 \* observation: the pairs added since the last clear_memory, in order

rufusVars == <<arduino, idle_animation_running, idle_thread, conversation_locked,
               pc, cmd, ret, slices, idle_servo, answer, movements, failure, wire>>

botVars == <<connection, gc_running, gc_thread, gc_orphans, bot_pc, bot_ret, bot_steps, bot_servo,
             bot_op, bot_result, bot_writes, bot_failed, bot_wire>>

apiVars == <<api_arduino, api_init, api_pc, api_req, api_seq, api_result, api_wrote, api_failed,
             api_ack, api_wire>>

clampVars == <<clamp_loop, clamp_servo, clamp_arg, clamp_res, clamp_done>>

detectVars == <<detect_ports, detect_pref, detect_res, detect_done>>

serialVars == <<ser_pc, in_waiting, ser_sent, ser_pending, ser_ack>>

convVars == <<messages, conv_calls, conv_removed, conv_result>>

memVars == <<conversation_history, mem_log>>

vars == <<program, rufusVars, botVars, apiVars, clampVars, detectVars, serialVars, convVars, memVars>>

--------------------------------------------------------------------------
(* Bounds of the model *)

\* int(interval * 10) is 80..150 slices in the program; the model sleeps 1..MaxSlices.
MaxSlices == 2

\* The clamping step of rufus.py is applied to every integer of -MaxAngle..MaxAngle.
MaxAngle == 200

--------------------------------------------------------------------------
(* Helpers *)

Max(a, b) == IF a >= b THEN a ELSE b
Min(a, b) == IF a <= b THEN a ELSE b

\* A Python bool as the caller observes it.
Bool(b) == IF b THEN "True" ELSE "False"

\* random.randint(a, b): the model draws the two ends and the middle of a..b.
randint(a, b) == {a, (a + b) \div 2, b}

--------------------------------------------------------------------------
(* src/rufus.py: data *)

Servos == {"head", "left_arm", "right_arm"}

SERVO_LIMITS ==
    [s \in Servos |->
        CASE s = "head"      -> [min |-> 40, max |-> 120, rest |-> 90]
          [] s = "left_arm"  -> [min |-> 0,  max |-> 80,  rest |-> 80]
          [] s = "right_arm" -> [min |-> 90, max |-> 180, rest |-> 90]]

\* A command line: a bare token ("yes", "rest") or f"{servo}_{angle}".
Token(name) == <<name>>
Move(servo, angle) == <<servo, "_", angle>>
NoCmd == <<>>
IsMove(c) == Len(c) = 3

Threads == {"main", "idle"}

\* What `wire` records of a written line: who wrote it, the line, and what held
\* at that moment (the lock flag, whether the idle thread had been started,
\* whether stop_idle_animations had returned, whether the shutdown had sent rest).
NoWrite == [src |-> "none", cmd |-> NoCmd, locked |-> FALSE, animator |-> FALSE,
            after_stop |-> FALSE, after_rest |-> FALSE]

\* The answer text, as the set of keywords that occur in it (substring tests).
\* The last one is get_ai_response's fallback text, which contains "think".
Answers == { {"yes"}, {"great"}, {"no"}, {"sorry"}, {"hmm"}, {"hello"}, {},
             {"think", "fallback"} }
NoAnswer == {"-"}

AnyWord(words, text) == \E w \in words : w \in text

\* rufus.py:260-272
classify_gesture(a) ==
    IF AnyWord({"yes", "good", "happy", "great", "awesome", "certainly", "absolutely"}, a)
    THEN "yes"
    ELSE IF AnyWord({"no", "sorry", "bad", "can't", "unfortunately"}, a)
    THEN "no"
    ELSE "neutral"

\* rufus.py:277-294: the list of movements natural_movements builds (a set of
\* possible lists, because the last branch draws at random).
natural_movements_list(a) ==
    IF AnyWord({"happy", "excited", "great", "awesome"}, a)
    THEN { <<Move("right_arm", 150), Move("left_arm", 60)>> }
    ELSE IF "no" \in a
    THEN { <<Move("head", 110), Move("head", 70)>> }
    ELSE IF AnyWord({"hmm", "interesting", "think"}, a)
    THEN { <<Move("head", 100)>> }
    ELSE IF AnyWord({"hello", "hi"}, a)
    THEN { <<Move("right_arm", 160), Move("left_arm", 50)>> }
    ELSE UNION { { <<Move(s, p)>> : p \in randint(SERVO_LIMITS[s].min + 10,
                                                    SERVO_LIMITS[s].max - 10) }
                 : s \in Servos }

\* a clamping line that has lost its upper limit
clamp_without_max(limits, a) == Max(limits.min, a)

\* rufus.py:159  new_pos = max(limits["min"], min(limits["max"], new_pos))
clamp(limits, a) == Max(limits.min, Min(limits.max, a))

\* rufus.py:150-159: the idle movement's target for a servo and a random offset
idle_new_pos(servo, offset) ==
    clamp(SERVO_LIMITS[servo], SERVO_LIMITS[servo].rest + offset)

--------------------------------------------------------------------------
(* src/rufus.py: send_command (rufus.py:71-88), one call frame per thread *)

\* Labels of main() inside its try block (rufus.py:319-371); a send_command
\* called from there returns to one of them.
TryLabels == {"input", "exit_speak", "clear_speak", "transcribe", "think",
              "after_gesture", "movement_loop", "speak"}

InTry(t) ==
    \/ pc[t] \in TryLabels
    \/ pc[t] \in {"send_write", "send_ack"} /\ ret[t] \in TryLabels \cup {"finally"}

\* stop_idle_animations has returned in main()'s finally block
StopReturned ==
    \/ pc["main"] \in {"shutdown", "close", "done"}
    \/ pc["main"] \in {"send_write", "send_ack"} /\ ret["main"] = "close"

\* the rest command of the shutdown has been written (or skipped with no hardware)
ShutdownRestIssued ==
    \/ pc["main"] \in {"close", "done"}
    \/ pc["main"] = "send_ack" /\ ret["main"] = "close"

\* Enter send_command(uno, c) from thread t, to continue at label r.
Call(t, c, r) ==
    /\ pc' = [pc EXCEPT ![t] = "send_write"]
    /\ cmd' = [cmd EXCEPT ![t] = c]
    /\ ret' = [ret EXCEPT ![t] = r]

Return(t) ==
    /\ pc' = [pc EXCEPT ![t] = ret[t]]
    /\ cmd' = [cmd EXCEPT ![t] = NoCmd]
    /\ ret' = [ret EXCEPT ![t] = "-"]

\* rufus.py:73-79: the None test and uno.write.  On a closed port, or on an
\* I/O error, write raises and the except clause (87-88) swallows it.
send_command_write(t) ==
    /\ program = "rufus"
    /\ pc[t] = "send_write"
    /\ \/ /\ arduino = "none"                   \* [SIMULATION]
          /\ Return(t)
          /\ UNCHANGED <<wire, failure>>
       \/ /\ arduino = "open"                   \* the line goes out
          /\ wire' = [src |-> t, cmd |-> cmd[t], locked |-> conversation_locked,
                      animator |-> idle_thread = "started",
                      after_stop |-> StopReturned, after_rest |-> ShutdownRestIssued]
          /\ pc' = [pc EXCEPT ![t] = "send_ack"]
          /\ UNCHANGED <<cmd, ret, failure>>
       \/ /\ arduino \in {"open", "closed"}     \* write raises
          /\ Return(t)
          /\ failure' = IF t = "main" /\ ret[t] \in TryLabels THEN "serial" ELSE failure
          /\ UNCHANGED wire
    /\ UNCHANGED <<program, convVars, memVars, serialVars, clampVars, detectVars, botVars, apiVars, arduino, idle_animation_running, idle_thread,
                   conversation_locked, slices, idle_servo, answer, movements>>

\* rufus.py:80-86: sleep 0.1 s, then drain the replies (they are only printed).
send_command_ack(t) ==
    /\ program = "rufus"
    /\ pc[t] = "send_ack"
    /\ Return(t)
    /\ UNCHANGED <<program, convVars, memVars, serialVars, clampVars, detectVars, botVars, apiVars, arduino, idle_animation_running, idle_thread,
                   conversation_locked, slices, idle_servo, answer, movements, failure, wire>>

--------------------------------------------------------------------------
(* src/rufus.py: the idle animation thread (rufus.py:127-165) *)

\* rufus.py:133-136: the while test and the draw of the interval
idle_while ==
    /\ program = "rufus"
    /\ pc["idle"] = "while"
    /\ IF idle_animation_running
       THEN \E n \in 1..MaxSlices :
                /\ slices' = n
                /\ pc' = [pc EXCEPT !["idle"] = "sleep"]
       ELSE /\ pc' = [pc EXCEPT !["idle"] = "done"]
            /\ UNCHANGED slices
    /\ UNCHANGED <<program, convVars, memVars, serialVars, clampVars, detectVars, botVars, apiVars, arduino, idle_animation_running, idle_thread,
                   conversation_locked, cmd, ret, idle_servo, answer, movements,
                   failure, wire>>

\* idle_sleep_slice without the stop test of rufus.py:141-142
idle_sleep_slice_no_stop_test ==
    /\ program = "rufus"
    /\ pc["idle"] = "sleep"
    /\ slices' = slices - 1
    /\ pc' = [pc EXCEPT !["idle"] = IF slices = 1 THEN "check_lock" ELSE "sleep"]
    /\ UNCHANGED <<program, convVars, memVars, serialVars, clampVars, detectVars, botVars, apiVars, arduino, idle_animation_running, idle_thread,
                   conversation_locked, cmd, ret, idle_servo, answer, movements,
                   failure, wire>>

\* rufus.py:139-142: one 0.1 s slice, then the stop test
idle_sleep_slice ==
    /\ program = "rufus"
    /\ pc["idle"] = "sleep"
    /\ IF ~idle_animation_running
       THEN /\ pc' = [pc EXCEPT !["idle"] = "done"]
            /\ UNCHANGED slices
       ELSE /\ slices' = slices - 1
            /\ pc' = [pc EXCEPT !["idle"] = IF slices = 1 THEN "check_lock" ELSE "sleep"]
    /\ UNCHANGED <<program, convVars, memVars, serialVars, clampVars, detectVars, botVars, apiVars, arduino, idle_animation_running, idle_thread,
                   conversation_locked, cmd, ret, idle_servo, answer, movements,
                   failure, wire>>

\* idle_check_lock whose skipped cycle ends the thread instead of looping back
idle_check_lock_ends ==
    /\ program = "rufus"
    /\ pc["idle"] = "check_lock"
    /\ IF conversation_locked \/ arduino = "none"
       THEN /\ pc' = [pc EXCEPT !["idle"] = "done"]
            /\ UNCHANGED <<cmd, ret, idle_servo>>
       ELSE \E servo \in Servos, offset \in randint(-15, 15) :
                /\ idle_servo' = servo
                /\ Call("idle", Move(servo, idle_new_pos(servo, offset)), "hold")
    /\ UNCHANGED <<program, convVars, memVars, serialVars, clampVars, detectVars, botVars, apiVars, arduino, idle_animation_running, idle_thread,
                   conversation_locked, slices, answer, movements, failure, wire>>

\* idle_check_lock that clears the lock it finds set
idle_check_lock_clears ==
    /\ program = "rufus"
    /\ pc["idle"] = "check_lock"
    /\ IF conversation_locked \/ arduino = "none"
       THEN /\ pc' = [pc EXCEPT !["idle"] = "while"]
            /\ conversation_locked' = FALSE
            /\ UNCHANGED <<cmd, ret, idle_servo>>
       ELSE /\ \E servo \in Servos, offset \in randint(-15, 15) :
                /\ idle_servo' = servo
                /\ Call("idle", Move(servo, idle_new_pos(servo, offset)), "hold")
            /\ UNCHANGED conversation_locked
    /\ UNCHANGED <<program, convVars, memVars, serialVars, clampVars, detectVars, botVars, apiVars, arduino, idle_animation_running, idle_thread,
                   slices, answer, movements, failure, wire>>

\* rufus.py:145-161: the lock test, the hardware test, the draw of the movement
\* and the call of the first send_command
idle_check_lock ==
    /\ program = "rufus"
    /\ pc["idle"] = "check_lock"
    /\ IF conversation_locked \/ arduino = "none"
       THEN /\ pc' = [pc EXCEPT !["idle"] = "while"]
            /\ UNCHANGED <<cmd, ret, idle_servo>>
       ELSE \E servo \in Servos, offset \in randint(-15, 15) :
                /\ idle_servo' = servo
                /\ Call("idle", Move(servo, idle_new_pos(servo, offset)), "hold")
    /\ UNCHANGED <<program, convVars, memVars, serialVars, clampVars, detectVars, botVars, apiVars, arduino, idle_animation_running, idle_thread,
                   conversation_locked, slices, answer, movements, failure, wire>>

\* idle_hold that ends the cycle without the return to rest
idle_hold_no_return ==
    /\ program = "rufus"
    /\ pc["idle"] = "hold"
    /\ pc' = [pc EXCEPT !["idle"] = "while"]
    /\ UNCHANGED <<program, convVars, memVars, serialVars, clampVars, detectVars, botVars, apiVars, arduino, idle_animation_running, idle_thread,
                   conversation_locked, cmd, ret, slices, idle_servo, answer, movements, failure, wire>>

\* idle_hold that gives up the return to rest once a stop was requested or the
\* conversation lock is set
idle_hold_tests_flags ==
    /\ program = "rufus"
    /\ pc["idle"] = "hold"
    /\ IF ~idle_animation_running \/ conversation_locked
       THEN /\ pc' = [pc EXCEPT !["idle"] = "while"]
            /\ UNCHANGED <<cmd, ret>>
       ELSE Call("idle", Move(idle_servo, SERVO_LIMITS[idle_servo].rest), "while")
    /\ UNCHANGED <<program, convVars, memVars, serialVars, clampVars, detectVars, botVars, apiVars, arduino, idle_animation_running, idle_thread,
                   conversation_locked, slices, idle_servo, answer, movements, failure, wire>>

\* rufus.py:162-165: sleep 0.5 s, then the return to rest of the same servo
idle_hold ==
    /\ program = "rufus"
    /\ pc["idle"] = "hold"
    /\ Call("idle", Move(idle_servo, SERVO_LIMITS[idle_servo].rest), "while")
    /\ UNCHANGED <<program, convVars, memVars, serialVars, clampVars, detectVars, botVars, apiVars, arduino, idle_animation_running, idle_thread,
                   conversation_locked, slices, idle_servo, answer, movements, failure, wire>>

--------------------------------------------------------------------------
(* src/rufus.py: start/stop of the idle thread (rufus.py:167-183) *)

\* rufus.py:316 and 57-69: open_arduino()
open_arduino ==
    /\ program = "rufus"
    /\ pc["main"] = "open_arduino"
    /\ \/ /\ arduino' = "open"                  \* Serial(...) succeeds; send "rest"
          /\ Call("main", Token("rest"), "start_idle")
       \/ /\ arduino' = "none"                  \* SerialException: simulation mode
          /\ pc' = [pc EXCEPT !["main"] = "start_idle"]
          /\ UNCHANGED <<cmd, ret>>
    /\ UNCHANGED <<program, convVars, memVars, serialVars, clampVars, detectVars, botVars, apiVars, idle_animation_running, idle_thread, conversation_locked,
                   slices, idle_servo, answer, movements, failure, wire>>

\* rufus.py:317 and 167-176: start_idle_animations(arduino)
start_idle_animations ==
    /\ program = "rufus"
    /\ pc["main"] = "start_idle"
    /\ IF idle_animation_running
       THEN /\ pc' = [pc EXCEPT !["main"] = "input"]
            /\ UNCHANGED <<idle_animation_running, idle_thread>>
       ELSE /\ idle_animation_running' = TRUE
            /\ idle_thread' = "started"
            /\ pc' = [pc EXCEPT !["main"] = "input", !["idle"] = "while"]
    /\ UNCHANGED <<program, convVars, memVars, serialVars, clampVars, detectVars, botVars, apiVars, arduino, conversation_locked, cmd, ret, slices, idle_servo,
                   answer, movements, failure, wire>>

--------------------------------------------------------------------------
(* src/rufus.py: main loop (rufus.py:319-371) *)

\* rufus.py:321-328: "exit" typed: lock, then say goodbye
main_input_exit ==
    /\ program = "rufus"
    /\ pc["main"] = "input"
    /\ conversation_locked' = TRUE
    /\ failure' = "none"
    /\ pc' = [pc EXCEPT !["main"] = "exit_speak"]
    /\ UNCHANGED <<program, convVars, memVars, serialVars, clampVars, detectVars, botVars, apiVars, arduino, idle_animation_running, idle_thread, cmd, ret,
                   slices, idle_servo, answer, movements, wire>>

\* rufus.py:326-328: speak_response (its failure is swallowed), send "yes", break
main_exit_speak ==
    /\ program = "rufus"
    /\ pc["main"] = "exit_speak"
    /\ \E spoken \in BOOLEAN :
          failure' = IF spoken THEN failure ELSE "speech"
    /\ Call("main", Token("yes"), "finally")
    /\ UNCHANGED <<program, convVars, memVars, serialVars, clampVars, detectVars, botVars, apiVars, arduino, idle_animation_running, idle_thread,
                   conversation_locked, slices, idle_servo, answer, movements, wire>>

\* rufus.py:331-334: "/clear": clear_memory(), speak, continue (no lock taken)
main_input_clear ==
    /\ program = "rufus"
    /\ pc["main"] = "input"
    /\ failure' = "none"
    /\ pc' = [pc EXCEPT !["main"] = "clear_speak"]
    /\ UNCHANGED <<program, convVars, memVars, serialVars, clampVars, detectVars, botVars, apiVars, arduino, idle_animation_running, idle_thread,
                   conversation_locked, cmd, ret, slices, idle_servo, answer,
                   movements, wire>>

main_clear_speak ==
    /\ program = "rufus"
    /\ pc["main"] = "clear_speak"
    /\ \E spoken \in BOOLEAN :
          failure' = IF spoken THEN failure ELSE "speech"
    /\ pc' = [pc EXCEPT !["main"] = "input"]
    /\ UNCHANGED <<program, convVars, memVars, serialVars, clampVars, detectVars, botVars, apiVars, arduino, idle_animation_running, idle_thread,
                   conversation_locked, cmd, ret, slices, idle_servo, answer,
                   movements, wire>>

\* rufus.py:337-339: empty input: lock, then record
main_input_voice ==
    /\ program = "rufus"
    /\ pc["main"] = "input"
    /\ conversation_locked' = TRUE
    /\ failure' = "none"
    /\ pc' = [pc EXCEPT !["main"] = "transcribe"]
    /\ UNCHANGED <<program, convVars, memVars, serialVars, clampVars, detectVars, botVars, apiVars, arduino, idle_animation_running, idle_thread, cmd, ret,
                   slices, idle_servo, answer, movements, wire>>

\* main_transcribe without the unlock of rufus.py:344
main_transcribe_keeps_lock ==
    /\ program = "rufus"
    /\ pc["main"] = "transcribe"
    /\ \E heard \in BOOLEAN :
          IF heard
          THEN /\ pc' = [pc EXCEPT !["main"] = "think"]
               /\ UNCHANGED failure
          ELSE /\ failure' = "transcribe"
               /\ pc' = [pc EXCEPT !["main"] = "input"]
    /\ UNCHANGED <<program, convVars, memVars, serialVars, clampVars, detectVars, botVars, apiVars, arduino, idle_animation_running, idle_thread,
                   conversation_locked, cmd, ret, slices, idle_servo, answer,
                   movements, wire>>

\* rufus.py:339-347: record_audio(), transcribe_audio(); nothing heard: unlock, continue
main_transcribe ==
    /\ program = "rufus"
    /\ pc["main"] = "transcribe"
    /\ \E heard \in BOOLEAN :
          IF heard
          THEN /\ pc' = [pc EXCEPT !["main"] = "think"]
               /\ UNCHANGED <<conversation_locked, failure>>
          ELSE /\ conversation_locked' = FALSE
               /\ failure' = "transcribe"
               /\ pc' = [pc EXCEPT !["main"] = "input"]
    /\ UNCHANGED <<program, convVars, memVars, serialVars, clampVars, detectVars, botVars, apiVars, arduino, idle_animation_running, idle_thread, cmd, ret,
                   slices, idle_servo, answer, movements, wire>>

\* rufus.py:348-351: typed text: lock
main_input_text ==
    /\ program = "rufus"
    /\ pc["main"] = "input"
    /\ conversation_locked' = TRUE
    /\ failure' = "none"
    /\ pc' = [pc EXCEPT !["main"] = "think"]
    /\ UNCHANGED <<program, convVars, memVars, serialVars, clampVars, detectVars, botVars, apiVars, arduino, idle_animation_running, idle_thread, cmd, ret,
                   slices, idle_servo, answer, movements, wire>>

\* rufus.py:353-363: get_ai_response (a failure yields the fallback text),
\* add_to_memory, classify_gesture, send the gesture
main_think ==
    /\ program = "rufus"
    /\ pc["main"] = "think"
    /\ \E a \in Answers :
          /\ answer' = a
          /\ failure' = IF "fallback" \in a THEN "ai" ELSE failure
          /\ Call("main", Token(classify_gesture(a)), "after_gesture")
    /\ UNCHANGED <<program, convVars, memVars, serialVars, clampVars, detectVars, botVars, apiVars, arduino, idle_animation_running, idle_thread,
                   conversation_locked, slices, idle_servo, movements, wire>>

\* rufus.py:364-365 and 275-294: sleep 0.5 s, natural_movements builds its list
main_after_gesture ==
    /\ program = "rufus"
    /\ pc["main"] = "after_gesture"
    /\ \E m \in natural_movements_list(answer) :
          movements' = SubSeq(m, 1, Min(2, Len(m)))
    /\ pc' = [pc EXCEPT !["main"] = "movement_loop"]
    /\ UNCHANGED <<program, convVars, memVars, serialVars, clampVars, detectVars, botVars, apiVars, arduino, idle_animation_running, idle_thread,
                   conversation_locked, cmd, ret, slices, idle_servo, answer,
                   failure, wire>>

\* rufus.py:296-302: for movement in movements[:2]: send, sleep; then send "rest"
main_movement_loop ==
    /\ program = "rufus"
    /\ pc["main"] = "movement_loop"
    /\ IF movements # <<>>
       THEN /\ Call("main", Head(movements), "movement_loop")
            /\ movements' = Tail(movements)
       ELSE /\ Call("main", Token("rest"), "speak")
            /\ UNCHANGED movements
    /\ UNCHANGED <<program, convVars, memVars, serialVars, clampVars, detectVars, botVars, apiVars, arduino, idle_animation_running, idle_thread,
                   conversation_locked, slices, idle_servo, answer, failure, wire>>

\* rufus.py:367-371: speak_response(answer) (its failure is swallowed), unlock
main_speak_unlock ==
    /\ program = "rufus"
    /\ pc["main"] = "speak"
    /\ \E spoken \in BOOLEAN :
          failure' = IF spoken THEN failure ELSE "speech"
    /\ conversation_locked' = FALSE
    /\ answer' = NoAnswer
    /\ pc' = [pc EXCEPT !["main"] = "input"]
    /\ UNCHANGED <<program, convVars, memVars, serialVars, clampVars, detectVars, botVars, apiVars, arduino, idle_animation_running, idle_thread, cmd, ret,
                   slices, idle_servo, movements, wire>>

\* rufus.py:373-377: KeyboardInterrupt, or any exception that reaches main(),
\* anywhere inside the try block: control goes to the finally clause
main_interrupt ==
    /\ program = "rufus"
    /\ InTry("main")
    /\ pc' = [pc EXCEPT !["main"] = "finally"]
    /\ cmd' = [cmd EXCEPT !["main"] = NoCmd]
    /\ ret' = [ret EXCEPT !["main"] = "-"]
    /\ answer' = NoAnswer
    /\ movements' = <<>>
    /\ UNCHANGED <<program, convVars, memVars, serialVars, clampVars, detectVars, botVars, apiVars, arduino, idle_animation_running, idle_thread,
                   conversation_locked, slices, idle_servo, failure, wire>>

--------------------------------------------------------------------------
(* src/rufus.py: shutdown (rufus.py:377-385) *)

\* rufus.py:379
main_finally ==
    /\ program = "rufus"
    /\ pc["main"] = "finally"
    /\ conversation_locked' = TRUE
    /\ pc' = [pc EXCEPT !["main"] = "stop"]
    /\ UNCHANGED <<program, convVars, memVars, serialVars, clampVars, detectVars, botVars, apiVars, arduino, idle_animation_running, idle_thread, cmd, ret,
                   slices, idle_servo, answer, movements, failure, wire>>

\* rufus.py:178-181: stop_idle_animations() clears the flag
stop_idle_animations ==
    /\ program = "rufus"
    /\ pc["main"] = "stop"
    /\ idle_animation_running' = FALSE
    /\ pc' = [pc EXCEPT !["main"] = IF idle_thread # "none" THEN "join" ELSE "shutdown"]
    /\ UNCHANGED <<program, convVars, memVars, serialVars, clampVars, detectVars, botVars, apiVars, arduino, idle_thread, conversation_locked, cmd, ret,
                   slices, idle_servo, answer, movements, failure, wire>>

\* rufus.py:182-183: idle_thread.join(timeout=2) returns when the thread has
\* ended, or when 2 s have passed with the thread still alive; nothing tells
\* the caller which.
join_idle_thread ==
    /\ program = "rufus"
    /\ pc["main"] = "join"
    /\ \/ pc["idle"] = "done"                   \* the thread ended
       \/ pc["idle"] # "done"                   \* timeout
    /\ pc' = [pc EXCEPT !["main"] = "shutdown"]
    /\ UNCHANGED <<program, convVars, memVars, serialVars, clampVars, detectVars, botVars, apiVars, arduino, idle_animation_running, idle_thread,
                   conversation_locked, cmd, ret, slices, idle_servo, answer,
                   movements, failure, wire>>

\* rufus.py:381-382: if arduino: send "rest"
main_shutdown_rest ==
    /\ program = "rufus"
    /\ pc["main"] = "shutdown"
    /\ IF arduino # "none"
       THEN Call("main", Token("rest"), "close")
       ELSE /\ pc' = [pc EXCEPT !["main"] = "done"]
            /\ UNCHANGED <<cmd, ret>>
    /\ UNCHANGED <<program, convVars, memVars, serialVars, clampVars, detectVars, botVars, apiVars, arduino, idle_animation_running, idle_thread,
                   conversation_locked, slices, idle_servo, answer, movements,
                   failure, wire>>

\* rufus.py:383-384: sleep 0.5 s, arduino.close()
main_close ==
    /\ program = "rufus"
    /\ pc["main"] = "close"
    /\ arduino' = "closed"
    /\ pc' = [pc EXCEPT !["main"] = "done"]
    /\ UNCHANGED <<program, convVars, memVars, serialVars, clampVars, detectVars, botVars, apiVars, idle_animation_running, idle_thread, conversation_locked,
                   cmd, ret, slices, idle_servo, answer, movements, failure, wire>>

--------------------------------------------------------------------------
(* The programs that are not running stay as they are *)

NoBotWrite == [src |-> "none", cmd |-> NoCmd, after_stop |-> FALSE, animator |-> FALSE,
               suppressed |-> FALSE, after_failure |-> FALSE]
NoOp == [kind |-> "none", arg |-> <<>>]

BotUnstarted ==
    /\ connection = "unopened"
    /\ gc_running = FALSE
    /\ gc_thread = "none"
    /\ gc_orphans = <<>>
    /\ bot_pc = [t \in Threads |-> IF t = "main" THEN "init" ELSE "unstarted"]
    /\ bot_ret = "-"
    /\ bot_steps = <<>>
    /\ bot_servo = <<>>
    /\ bot_op = NoOp
    /\ bot_result = "none"
    /\ bot_writes = 0
    /\ bot_failed = FALSE
    /\ bot_wire = NoBotWrite

\* The Flask development server serves each request on a thread of its own
\* (app.run, pi_api_server.py:418); the model has two of them.
Handlers == {1, 2}

\* No acknowledgment read was made (yet)
NoAck == [kind |-> "unread", line |-> <<>>]

NoApiWrite == [h |-> 0, line |-> NoCmd, kind |-> "none", contiguous |-> TRUE,
               after_failure |-> FALSE]

\* init_arduino has not been called
NoInit == [kind |-> "none", opened |-> FALSE, lines |-> <<>>, ready |-> FALSE, result |-> "none"]

\* app.run is serving requests; the locals of init_arduino are gone
Serving == [kind |-> "serving", opened |-> FALSE, lines |-> <<>>, ready |-> FALSE,
            result |-> "none"]

ApiUnstarted ==
    /\ api_arduino = "unopened"
    /\ api_init = NoInit
    /\ api_pc = [h \in Handlers |-> "idle"]
    /\ api_req = [h \in Handlers |-> NoOp]
    /\ api_seq = [h \in Handlers |-> <<>>]
    /\ api_result = [h \in Handlers |-> "none"]
    /\ api_wrote = [h \in Handlers |-> FALSE]
    /\ api_failed = [h \in Handlers |-> FALSE]
    /\ api_ack = [h \in Handlers |-> NoAck]
    /\ api_wire = NoApiWrite

ClampUnstarted ==
    /\ clamp_loop = "none"
    /\ clamp_servo = "none"
    /\ clamp_arg = 0
    /\ clamp_res = 0
    /\ clamp_done = FALSE

DetectUnstarted ==
    /\ detect_ports = <<>>
    /\ detect_pref = ""
    /\ detect_res = ""
    /\ detect_done = FALSE

\* No acknowledgment read yet
NoSerialAck == [cmd |-> 0, kind |-> "unread", of |-> 0, line |-> <<>>, ok |-> "none"]

SerialUnstarted ==
    /\ ser_pc = "init"
    /\ in_waiting = <<>>
    /\ ser_sent = 0
    /\ ser_pending = {}
    /\ ser_ack = NoSerialAck

\* conversation.py:33-35: self.messages after __init__: the system prompt
SystemMessage == [role |-> "system", turn |-> 0]

ConvUnstarted ==
    /\ messages = <<SystemMessage>>
    /\ conv_calls = 0
    /\ conv_removed = <<>>
    /\ conv_result = "none"

\* rufus.py:91-99: conversation_history at import: the system prompt
SystemEntry == [role |-> "system", content |-> "prompt"]

MemUnstarted ==
    /\ conversation_history = <<SystemEntry>>
    /\ mem_log = <<>>

RufusUnstarted ==
    /\ arduino = "unopened"
    /\ idle_animation_running = FALSE
    /\ idle_thread = "none"
    /\ conversation_locked = FALSE
    /\ pc = [t \in Threads |-> IF t = "main" THEN "open_arduino" ELSE "unstarted"]
    /\ cmd = [t \in Threads |-> NoCmd]
    /\ ret = [t \in Threads |-> "-"]
    /\ slices = 0
    /\ idle_servo = "head"
    /\ answer = NoAnswer
    /\ movements = <<>>
    /\ failure = "none"
    /\ wire = NoWrite

--------------------------------------------------------------------------
(* src/rufus.py: the program *)

InitRufus ==
    /\ program = "rufus"
    /\ RufusUnstarted
    /\ SerialUnstarted
    /\ ConvUnstarted
    /\ MemUnstarted
    /\ BotUnstarted
    /\ ApiUnstarted
    /\ ClampUnstarted
    /\ DetectUnstarted

NextRufus ==
    \/ open_arduino
    \/ start_idle_animations
    \/ \E t \in Threads : send_command_write(t)
    \/ \E t \in Threads : send_command_ack(t)
    \/ idle_while
    \/ idle_sleep_slice
    \/ idle_check_lock
    \/ idle_hold
    \/ main_input_exit
    \/ main_exit_speak
    \/ main_input_clear
    \/ main_clear_speak
    \/ main_input_voice
    \/ main_transcribe
    \/ main_input_text
    \/ main_think
    \/ main_after_gesture
    \/ main_movement_loop
    \/ main_speak_unlock
    \/ main_interrupt
    \/ main_finally
    \/ stop_idle_animations
    \/ join_idle_thread
    \/ main_shutdown_rest
    \/ main_close

Spec == InitRufus /\ [][NextRufus]_vars

\* The steps of the idle thread (rufus.py:127-165, and the send_command it calls)
IdleStep ==
    \/ idle_while
    \/ idle_sleep_slice
    \/ idle_check_lock
    \/ idle_hold
    \/ send_command_write("idle")
    \/ send_command_ack("idle")

\* The idle thread is a daemon thread the scheduler keeps running: it is not
\* starved while it has a step to take.
SpecLive == Spec /\ WF_vars(IdleStep)

--------------------------------------------------------------------------
(* src/config.py *)

SERVO_PINS ==
    [s \in Servos |-> CASE s = "head" -> 9 [] s = "left_arm" -> 10 [] s = "right_arm" -> 8]

SERVO_RANGES ==
    [s \in Servos |->
        CASE s = "head"      -> [min |-> 40, max |-> 120]
          [] s = "left_arm"  -> [min |-> 0,  max |-> 80]
          [] s = "right_arm" -> [min |-> 90, max |-> 180]]

SERVO_HOME_POSITIONS ==
    [s \in Servos |-> CASE s = "head" -> 80 [] s = "left_arm" -> 40 [] s = "right_arm" -> 135]

--------------------------------------------------------------------------
(* src/src/arduino_controller.py *)

\* Servo names a caller may pass: the three servos and one that does not exist.
ServoNames == Servos \cup {"tail"}

\* Angles a caller may pass to move_servo: inside and outside every safe range.
Angles == {-10, 90, 200}

\* GestureController has no flag of its own for suppression: the one signal its
\* idle loop reads before a movement is idle_animation_running
\* (gesture_controller.py:140 and 149), so the loop is held off exactly when
\* that flag is clear.
bot_suppressed == ~gc_running

\* stop_idle_animations has returned and the animations were not started again
BotStopReturned == gc_thread = "started" /\ ~gc_running /\ bot_pc["main"] # "join"

\* arduino_controller.py:77-98  send_command(command) called by thread t:
\* ok is its return value and n the number of lines it wrote (0 or 1).
bot_send_command(t, c, ok, n) ==
    \/ /\ connection = "none"                   \* [SIMULATION]
       /\ ok = TRUE /\ n = 0
       /\ UNCHANGED bot_wire
    \/ /\ connection = "open"                   \* write and flush
       /\ ok = TRUE /\ n = 1
       /\ bot_wire' = [src |-> t, cmd |-> c, after_stop |-> BotStopReturned,
                       animator |-> gc_thread = "started", suppressed |-> bot_suppressed,
                       after_failure |-> t = "main" /\ bot_failed]
    \/ /\ connection \in {"open", "closed"}     \* SerialException
       /\ ok = FALSE /\ n = 0
       /\ UNCHANGED bot_wire

\* arduino_controller.py:155  new_angle = max(0, min(180, new_angle))
clamp_0_180(a) == Max(0, Min(180, a))

\* arduino_controller.py:147-161: the two moves of natural_movement
natural_movement_steps ==
    { << Move(s, clamp_0_180(SERVO_HOME_POSITIONS[s] + d)), Move(s, SERVO_HOME_POSITIONS[s]) >>
        : s \in Servos, d \in randint(-15, 15) }

--------------------------------------------------------------------------
(* src/src/gesture_controller.py *)

\* gesture_controller.py:101-110: the names perform_gesture knows
BotGestures == {"yes", "no", "neutral", "head_tilt", "thinking", "wave", "excited",
                "natural_movement"}

\* Names a caller may pass to perform_gesture.
GestureNames == BotGestures \cup {"nod", ""}

\* gesture_steps whose wave is made with the left arm
gesture_steps_left_wave(name) ==
    CASE name = "yes"       -> { <<Token("yes")>> }
      [] name = "no"        -> { <<Token("no")>> }
      [] name = "neutral"   -> { <<Token("neutral")>> }
      [] name = "head_tilt" -> { <<Move("head", 100), Move("head", 80)>> }
      [] name = "thinking"  -> { <<Move("head", 70), Move("head", 90), Move("head", 80)>> }
      [] name = "wave"      -> { [i \in 1..5 |-> Move("left_arm", IF i % 2 = 1 THEN 135 ELSE 150)] }
      [] name = "excited"   -> { [i \in 1..12 |->
                                    CASE i % 4 = 1 -> Move("left_arm", 60)
                                      [] i % 4 = 2 -> Move("right_arm", 150)
                                      [] i % 4 = 3 -> Move("left_arm", 40)
                                      [] i % 4 = 0 -> Move("right_arm", 135)] }
      [] name = "natural_movement" -> natural_movement_steps

\* gesture_controller.py:32-90: the lines each gesture sends, in order
gesture_steps(name) ==
    CASE name = "yes"       -> { <<Token("yes")>> }
      [] name = "no"        -> { <<Token("no")>> }
      [] name = "neutral"   -> { <<Token("neutral")>> }
      [] name = "head_tilt" -> { <<Move("head", 100), Move("head", 80)>> }
      [] name = "thinking"  -> { <<Move("head", 70), Move("head", 90), Move("head", 80)>> }
      [] name = "wave"      -> { [i \in 1..5 |-> Move("right_arm", IF i % 2 = 1 THEN 135 ELSE 150)] }
      [] name = "excited"   -> { [i \in 1..12 |->
                                    CASE i % 4 = 1 -> Move("left_arm", 60)
                                      [] i % 4 = 2 -> Move("right_arm", 150)
                                      [] i % 4 = 3 -> Move("left_arm", 40)
                                      [] i % 4 = 0 -> Move("right_arm", 135)] }
      [] name = "natural_movement" -> natural_movement_steps

\* perform_gesture that runs the default gesture for a name it does not know
bot_perform_gesture_default(name) ==
    /\ program = "bot"
    /\ bot_pc["main"] = "ready"
    /\ bot_op' = [kind |-> "perform_gesture", arg |-> <<name>>]
    /\ bot_writes' = 0
    /\ bot_failed' = FALSE
    /\ \E st \in gesture_steps(IF name \in BotGestures THEN name ELSE "neutral") :
          bot_steps' = st
    /\ bot_result' = "pending"
    /\ bot_pc' = [bot_pc EXCEPT !["main"] = "gesture"]
    /\ UNCHANGED <<program, convVars, memVars, serialVars, clampVars, detectVars, rufusVars, apiVars, gc_orphans, connection, gc_running, gc_thread, bot_ret,
                   bot_servo, bot_wire>>

\* gesture_controller.py:92-118  perform_gesture(gesture_name): the lookup
bot_perform_gesture(name) ==
    /\ program = "bot"
    /\ bot_pc["main"] = "ready"
    /\ bot_op' = [kind |-> "perform_gesture", arg |-> <<name>>]
    /\ bot_writes' = 0
    /\ bot_failed' = FALSE
    /\ IF name \in BotGestures
       THEN /\ \E st \in gesture_steps(name) : bot_steps' = st
            /\ bot_result' = "pending"
            /\ bot_pc' = [bot_pc EXCEPT !["main"] = "gesture"]
       ELSE /\ bot_result' = "False"
            /\ bot_pc' = [bot_pc EXCEPT !["main"] = "return"]
            /\ UNCHANGED bot_steps
    /\ UNCHANGED <<program, convVars, memVars, serialVars, clampVars, detectVars, rufusVars, apiVars, gc_orphans, connection, gc_running, gc_thread, bot_ret,
                   bot_servo, bot_wire>>

\* bot_gesture_step that returns whether every send of the gesture succeeded
bot_gesture_step_strict ==
    /\ program = "bot"
    /\ bot_pc["main"] = "gesture"
    /\ IF bot_steps = <<>>
       THEN /\ bot_result' = Bool(~bot_failed)
            /\ bot_pc' = [bot_pc EXCEPT !["main"] = "return"]
            /\ UNCHANGED <<bot_steps, bot_writes, bot_failed, bot_wire>>
       ELSE /\ \E ok \in BOOLEAN, n \in {0, 1} :
                  /\ bot_send_command("main", Head(bot_steps), ok, n)
                  /\ bot_writes' = bot_writes + n
                  /\ bot_failed' = (bot_failed \/ ~ok)
            /\ bot_steps' = Tail(bot_steps)
            /\ UNCHANGED <<bot_result, bot_pc>>
    /\ UNCHANGED <<program, convVars, memVars, serialVars, clampVars, detectVars, rufusVars, apiVars, gc_orphans, connection, gc_running, gc_thread, bot_ret,
                   bot_servo, bot_op>>

\* The gesture in progress sends its next line (move_servo or send_command);
\* when none is left perform_gesture returns True (gesture_controller.py:112-114).
bot_gesture_step ==
    /\ program = "bot"
    /\ bot_pc["main"] = "gesture"
    /\ IF bot_steps = <<>>
       THEN /\ bot_result' = "True"
            /\ bot_pc' = [bot_pc EXCEPT !["main"] = "return"]
            /\ UNCHANGED <<bot_steps, bot_writes, bot_failed, bot_wire>>
       ELSE /\ \E ok \in BOOLEAN, n \in {0, 1} :
                  /\ bot_send_command("main", Head(bot_steps), ok, n)
                  /\ bot_writes' = bot_writes + n
                  /\ bot_failed' = (bot_failed \/ ~ok)
            /\ bot_steps' = Tail(bot_steps)
            /\ UNCHANGED <<bot_result, bot_pc>>
    /\ UNCHANGED <<program, convVars, memVars, serialVars, clampVars, detectVars, rufusVars, apiVars, gc_orphans, connection, gc_running, gc_thread, bot_ret,
                   bot_servo, bot_op>>

\* move_servo that sends the command without looking the servo up
bot_move_servo_unchecked(servo, angle) ==
    /\ program = "bot"
    /\ bot_pc["main"] = "ready"
    /\ bot_op' = [kind |-> "move_servo", arg |-> <<servo, angle>>]
    /\ \E ok \in BOOLEAN, n \in {0, 1} :
          /\ bot_send_command("main", Move(servo, angle), ok, n)
          /\ bot_result' = Bool(ok)
          /\ bot_writes' = n
          /\ bot_failed' = ~ok
    /\ bot_pc' = [bot_pc EXCEPT !["main"] = "return"]
    /\ UNCHANGED <<program, convVars, memVars, serialVars, clampVars, detectVars, rufusVars, apiVars, gc_orphans, connection, gc_running, gc_thread,
                   bot_ret, bot_steps, bot_servo>>

\* arduino_controller.py:112-128  move_servo(servo, angle), called directly
bot_move_servo(servo, angle) ==
    /\ program = "bot"
    /\ bot_pc["main"] = "ready"
    /\ bot_op' = [kind |-> "move_servo", arg |-> <<servo, angle>>]
    /\ IF servo \notin DOMAIN SERVO_PINS
       THEN /\ bot_result' = "False"
            /\ bot_writes' = 0
            /\ bot_failed' = FALSE
            /\ UNCHANGED bot_wire
       ELSE \E ok \in BOOLEAN, n \in {0, 1} :
               /\ bot_send_command("main", Move(servo, angle), ok, n)
               /\ bot_result' = Bool(ok)
               /\ bot_writes' = n
               /\ bot_failed' = ~ok
    /\ bot_pc' = [bot_pc EXCEPT !["main"] = "return"]
    /\ UNCHANGED <<program, convVars, memVars, serialVars, clampVars, detectVars, rufusVars, apiVars, gc_orphans, connection, gc_running, gc_thread,
                   bot_ret, bot_steps, bot_servo>>

\* config.py:47-51 and 60-64: the servos in the order the dictionaries list them
ServoOrder == <<"head", "left_arm", "right_arm">>

\* arduino_controller.py:144-145: the moves set_home_position makes, in the
\* order of SERVO_HOME_POSITIONS.items()
HomeSteps == [i \in 1..Len(ServoOrder) |-> Move(ServoOrder[i], SERVO_HOME_POSITIONS[ServoOrder[i]])]

\* set_home_position that moves the head only
bot_set_home_position_head_only ==
    /\ program = "bot"
    /\ bot_pc["main"] = "ready"
    /\ bot_op' = [kind |-> "set_home_position", arg |-> <<>>]
    /\ bot_steps' = <<HomeSteps[1]>>
    /\ bot_result' = "pending"
    /\ bot_writes' = 0
    /\ bot_failed' = FALSE
    /\ bot_pc' = [bot_pc EXCEPT !["main"] = "home"]
    /\ UNCHANGED <<program, convVars, memVars, serialVars, clampVars, detectVars, rufusVars, apiVars, gc_orphans, connection, gc_running, gc_thread, bot_ret,
                   bot_servo, bot_wire>>

\* arduino_controller.py:142-145  set_home_position() is called
bot_set_home_position ==
    /\ program = "bot"
    /\ bot_pc["main"] = "ready"
    /\ bot_op' = [kind |-> "set_home_position", arg |-> <<>>]
    /\ bot_steps' = HomeSteps
    /\ bot_result' = "pending"
    /\ bot_writes' = 0
    /\ bot_failed' = FALSE
    /\ bot_pc' = [bot_pc EXCEPT !["main"] = "home"]
    /\ UNCHANGED <<program, convVars, memVars, serialVars, clampVars, detectVars, rufusVars, apiVars, gc_orphans, connection, gc_running, gc_thread, bot_ret,
                   bot_servo, bot_wire>>

\* arduino_controller.py:144-145: one turn of the for loop, self.move_servo(servo, angle),
\* or the end of the method
bot_home_step ==
    /\ program = "bot"
    /\ bot_pc["main"] = "home"
    /\ IF bot_steps = <<>>
       THEN /\ bot_result' = "returned"
            /\ bot_pc' = [bot_pc EXCEPT !["main"] = "return"]
            /\ UNCHANGED <<bot_steps, bot_writes, bot_failed, bot_wire>>
       ELSE /\ \E ok \in BOOLEAN, n \in {0, 1} :
                  /\ bot_send_command("main", Head(bot_steps), ok, n)
                  /\ bot_writes' = bot_writes + n
                  /\ bot_failed' = (bot_failed \/ ~ok)
            /\ bot_steps' = Tail(bot_steps)
            /\ UNCHANGED <<bot_result, bot_pc>>
    /\ UNCHANGED <<program, convVars, memVars, serialVars, clampVars, detectVars, rufusVars, apiVars, gc_orphans, connection, gc_running, gc_thread, bot_ret,
                   bot_servo, bot_op>>

--------------------------------------------------------------------------
(* src/src/rufus.py: RufusBot.__init__ and shutdown *)

\* rufus.py:55 and arduino_controller.py:22-75: ArduinoController() connects
bot_connect ==
    /\ program = "bot"
    /\ bot_pc["main"] = "init"
    /\ connection' \in {"open", "none"}
    /\ bot_pc' = [bot_pc EXCEPT !["main"] = "init_start"]
    /\ UNCHANGED <<program, convVars, memVars, serialVars, clampVars, detectVars, rufusVars, apiVars, gc_orphans, gc_running, gc_thread, bot_ret, bot_steps,
                   bot_servo, bot_op, bot_result, bot_writes, bot_failed, bot_wire>>

\* rufus.py:70 and gesture_controller.py:120-129: start_idle_animations()
bot_start_idle_animations ==
    /\ program = "bot"
    /\ bot_pc["main"] = "init_start"
    /\ IF gc_running
       THEN /\ bot_pc' = [bot_pc EXCEPT !["main"] = "init_neutral"]
            /\ UNCHANGED <<gc_running, gc_thread>>
       ELSE /\ gc_running' = TRUE
            /\ gc_thread' = "started"
            /\ bot_pc' = [bot_pc EXCEPT !["main"] = "init_neutral", !["idle"] = "while"]
    /\ UNCHANGED <<program, convVars, memVars, serialVars, clampVars, detectVars, rufusVars, apiVars, gc_orphans, connection, bot_ret, bot_steps, bot_servo,
                   bot_op, bot_result, bot_writes, bot_failed, bot_wire>>

\* rufus.py:73: gesture_neutral() after the start of the idle animations
bot_init_neutral ==
    /\ program = "bot"
    /\ bot_pc["main"] = "init_neutral"
    /\ \E ok \in BOOLEAN, n \in {0, 1} : bot_send_command("main", Token("neutral"), ok, n)
    /\ bot_pc' = [bot_pc EXCEPT !["main"] = "ready"]
    /\ UNCHANGED <<program, convVars, memVars, serialVars, clampVars, detectVars, rufusVars, apiVars, gc_orphans, connection, gc_running, gc_thread, bot_ret,
                   bot_steps, bot_servo, bot_op, bot_result, bot_writes, bot_failed>>

\* stop_idle_animations that joins the thread without testing that there is one
bot_stop_idle_animations_unguarded(r) ==
    /\ program = "bot"
    /\ bot_pc["main"] = "ready"
    /\ gc_running' = FALSE
    /\ bot_op' = [kind |-> IF r = "return" THEN "stop_idle_animations" ELSE "shutdown",
                  arg |-> <<Bool(gc_running), gc_thread>>]
    /\ bot_result' = IF gc_thread = "none" THEN "raised" ELSE "pending"
    /\ bot_writes' = 0
    /\ bot_failed' = FALSE
    /\ bot_ret' = IF gc_thread # "none" THEN r ELSE "-"
    /\ bot_pc' = [bot_pc EXCEPT !["main"] = IF gc_thread # "none" THEN "join" ELSE "return"]
    /\ UNCHANGED <<program, convVars, memVars, serialVars, clampVars, detectVars, rufusVars, apiVars, gc_orphans, connection, gc_thread, bot_steps, bot_servo,
                   bot_wire>>

\* gesture_controller.py:131-133: stop_idle_animations() clears the flag;
\* called directly (r = "return") or by RufusBot.shutdown (rufus.py:314).
\* bot_op records the flag and the thread the call found.
bot_stop_idle_animations(r) ==
    /\ program = "bot"
    /\ bot_pc["main"] = "ready"
    /\ gc_running' = FALSE
    /\ bot_op' = [kind |-> IF r = "return" THEN "stop_idle_animations" ELSE "shutdown",
                  arg |-> <<Bool(gc_running), gc_thread>>]
    /\ bot_result' = IF gc_thread = "none" /\ r = "return" THEN "returned" ELSE "pending"
    /\ bot_writes' = 0
    /\ bot_failed' = FALSE
    /\ bot_ret' = IF gc_thread # "none" THEN r ELSE "-"
    /\ bot_pc' = [bot_pc EXCEPT !["main"] = IF gc_thread # "none" THEN "join" ELSE r]
    /\ UNCHANGED <<program, convVars, memVars, serialVars, clampVars, detectVars, rufusVars, apiVars, gc_orphans, connection, gc_thread, bot_steps, bot_servo,
                   bot_wire>>

\* gesture_controller.py:134-136: idle_animation_thread.join(timeout=2) returns
\* when the thread has ended, or after 2 s with the thread still alive (it may
\* be anywhere in a sleep of 8 to 15 s); nothing tells the caller which.
bot_join ==
    /\ program = "bot"
    /\ bot_pc["main"] = "join"
    /\ \/ bot_pc["idle"] = "done"               \* the thread ended
       \/ bot_pc["idle"] # "done"               \* timeout
    /\ bot_pc' = [bot_pc EXCEPT !["main"] = bot_ret]
    /\ bot_ret' = "-"
    /\ bot_result' = IF bot_ret = "return" THEN "returned" ELSE bot_result
    /\ UNCHANGED <<program, convVars, memVars, serialVars, clampVars, detectVars, rufusVars, apiVars, gc_orphans, connection, gc_running, gc_thread, bot_steps,
                   bot_servo, bot_op, bot_writes, bot_failed, bot_wire>>

\* rufus.py:317: gesture_neutral() of the shutdown
bot_shutdown_neutral ==
    /\ program = "bot"
    /\ bot_pc["main"] = "shutdown_neutral"
    /\ \E ok \in BOOLEAN, n \in {0, 1} :
          /\ bot_send_command("main", Token("neutral"), ok, n)
          /\ bot_writes' = n
          /\ bot_failed' = ~ok
    /\ bot_pc' = [bot_pc EXCEPT !["main"] = "disconnect"]
    /\ UNCHANGED <<program, convVars, memVars, serialVars, clampVars, detectVars, rufusVars, apiVars, gc_orphans, connection, gc_running, gc_thread, bot_ret,
                   bot_steps, bot_servo, bot_op, bot_result>>

\* disconnect that closes the connection without testing that there is one
bot_disconnect_unguarded ==
    /\ program = "bot"
    /\ bot_pc["main"] \in {"disconnect", "off"}
    /\ bot_op' = [kind |-> "disconnect", arg |-> <<connection>>]
    /\ connection' = IF connection = "open" THEN "closed" ELSE connection
    /\ bot_result' = IF connection = "none" THEN "raised" ELSE "returned"
    /\ bot_pc' = [bot_pc EXCEPT !["main"] = "off"]
    /\ UNCHANGED <<program, convVars, memVars, serialVars, clampVars, detectVars, rufusVars, apiVars, gc_orphans, gc_running, gc_thread, bot_ret, bot_steps,
                   bot_servo, bot_writes, bot_failed, bot_wire>>

\* rufus.py:324 and arduino_controller.py:163-167: disconnect(), called by
\* shutdown, and called again once the program is off (__exit__, line 172-173,
\* or a second shutdown). bot_op records the connection it was called with.
bot_disconnect ==
    /\ program = "bot"
    /\ bot_pc["main"] \in {"disconnect", "off"}
    /\ bot_op' = [kind |-> "disconnect", arg |-> <<connection>>]
    /\ connection' = IF connection = "open" THEN "closed" ELSE connection
    /\ bot_result' = "returned"
    /\ bot_pc' = [bot_pc EXCEPT !["main"] = "off"]
    /\ UNCHANGED <<program, convVars, memVars, serialVars, clampVars, detectVars, rufusVars, apiVars, gc_orphans, gc_running, gc_thread, bot_ret, bot_steps,
                   bot_servo, bot_writes, bot_failed, bot_wire>>

\* The operation returns to its caller, who may invoke the next one.
bot_return ==
    /\ program = "bot"
    /\ bot_pc["main"] = "return"
    /\ bot_pc' = [bot_pc EXCEPT !["main"] = "ready"]
    /\ bot_op' = NoOp
    /\ bot_result' = "none"
    /\ bot_writes' = 0
    /\ bot_failed' = FALSE
    /\ UNCHANGED <<program, convVars, memVars, serialVars, clampVars, detectVars, rufusVars, apiVars, gc_orphans, connection, gc_running, gc_thread,
                   bot_ret, bot_steps, bot_servo, bot_wire>>

--------------------------------------------------------------------------
(* src/src/gesture_controller.py: _idle_animation_loop (138-152) *)

\* gesture_controller.py:140-146: the while test; then time.sleep(interval) begins
bot_idle_while ==
    /\ program = "bot"
    /\ bot_pc["idle"] = "while"
    /\ bot_pc' = [bot_pc EXCEPT !["idle"] = IF gc_running THEN "sleep" ELSE "done"]
    /\ UNCHANGED <<program, convVars, memVars, serialVars, clampVars, detectVars, rufusVars, apiVars, gc_orphans, connection, gc_running, gc_thread, bot_ret,
                   bot_steps, bot_servo, bot_op, bot_result, bot_writes, bot_failed, bot_wire>>

\* gesture_controller.py:146-152: the sleep ends; break if stopped, otherwise
\* natural_movement() draws its servo and angle (arduino_controller.py:150-155)
bot_idle_wake ==
    /\ program = "bot"
    /\ bot_pc["idle"] = "sleep"
    /\ IF ~gc_running
       THEN /\ bot_pc' = [bot_pc EXCEPT !["idle"] = "done"]
            /\ UNCHANGED bot_servo
       ELSE /\ \E st \in natural_movement_steps : bot_servo' = st
            /\ bot_pc' = [bot_pc EXCEPT !["idle"] = "move"]
    /\ UNCHANGED <<program, convVars, memVars, serialVars, clampVars, detectVars, rufusVars, apiVars, gc_orphans, connection, gc_running, gc_thread, bot_ret,
                   bot_steps, bot_op, bot_result, bot_writes, bot_failed, bot_wire>>

\* arduino_controller.py:157-161: move_servo(servo, new_angle); sleep 0.5 s;
\* move_servo(servo, current_angle)
bot_idle_move ==
    /\ program = "bot"
    /\ bot_pc["idle"] = "move"
    /\ \E ok \in BOOLEAN, n \in {0, 1} : bot_send_command("idle", Head(bot_servo), ok, n)
    /\ bot_servo' = Tail(bot_servo)
    /\ bot_pc' = [bot_pc EXCEPT !["idle"] = IF Len(bot_servo) = 1 THEN "while" ELSE "move"]
    /\ UNCHANGED <<program, convVars, memVars, serialVars, clampVars, detectVars, rufusVars, apiVars, gc_orphans, connection, gc_running, gc_thread, bot_ret,
                   bot_steps, bot_op, bot_result, bot_writes, bot_failed>>

--------------------------------------------------------------------------
(* src/src: the program *)

InitBot ==
    /\ program = "bot"
    /\ RufusUnstarted
    /\ SerialUnstarted
    /\ ConvUnstarted
    /\ MemUnstarted
    /\ BotUnstarted
    /\ ApiUnstarted
    /\ ClampUnstarted
    /\ DetectUnstarted

NextBot ==
    \/ bot_connect
    \/ bot_start_idle_animations
    \/ bot_init_neutral
    \/ \E name \in GestureNames : bot_perform_gesture(name)
    \/ bot_gesture_step
    \/ \E servo \in ServoNames, angle \in Angles : bot_move_servo(servo, angle)
    \/ bot_set_home_position
    \/ bot_home_step
    \/ \E r \in {"return", "shutdown_neutral"} : bot_stop_idle_animations(r)
    \/ bot_join
    \/ bot_shutdown_neutral
    \/ bot_disconnect
    \/ bot_return
    \/ bot_idle_while
    \/ bot_idle_wake
    \/ bot_idle_move

SpecBot == InitBot /\ [][NextBot]_vars

\* The steps of the idle thread of GestureController
BotIdleStep ==
    \/ bot_idle_while
    \/ bot_idle_wake
    \/ bot_idle_move

\* Either program with its idle thread; the threads are daemon threads the
\* scheduler keeps running.
\* The idle threads of both programs, with no fairness assumed
SpecIdle == (InitRufus \/ InitBot) /\ [][NextRufus \/ NextBot]_vars

SpecStop ==
    /\ (InitRufus \/ InitBot)
    /\ [][NextRufus \/ NextBot]_vars
    /\ WF_vars(IdleStep)
    /\ WF_vars(BotIdleStep)

\* gesture_controller.py:22-31 and arduino_controller.py:22-33: a GestureController
\* just constructed over an ArduinoController (connected or in simulation mode),
\* its idle animations not started.
InitController ==
    /\ program = "bot"
    /\ RufusUnstarted
    /\ SerialUnstarted
    /\ ConvUnstarted
    /\ MemUnstarted
    /\ ApiUnstarted
    /\ ClampUnstarted
    /\ DetectUnstarted
    /\ connection \in {"open", "none"}
    /\ gc_running = FALSE
    /\ gc_thread = "none"
    /\ gc_orphans = <<>>
    /\ bot_pc = [t \in Threads |-> IF t = "main" THEN "ready" ELSE "unstarted"]
    /\ bot_ret = "-"
    /\ bot_steps = <<>>
    /\ bot_servo = <<>>
    /\ bot_op = NoOp
    /\ bot_result = "none"
    /\ bot_writes = 0
    /\ bot_failed = FALSE
    /\ bot_wire = NoBotWrite

\* The controller as RufusBot builds it, or as constructed on its own.
SpecController == (InitBot \/ InitController) /\ [][NextBot]_vars

--------------------------------------------------------------------------
(* src/src/gesture_controller.py: start_idle_animations and stop_idle_animations
   called again and again on one controller *)

\* Loops kept beside the one idle_animation_thread names
MaxOrphans == 1

\* The thread idle_animation_thread names is running _idle_animation_loop
IdleLoopLive == bot_pc["idle"] \notin {"unstarted", "done"}

\* gesture_controller.py:120-129: start_idle_animations() called on a controller
\* in use. With the flag set it returns at once. With the flag clear it sets
\* the flag and assigns a new Thread to idle_animation_thread; the loop of the
\* thread that attribute named before is not ended by that: if it has not
\* returned yet it goes on, named by nothing (gc_orphans).
bot_start_idle_animations_call ==
    /\ program = "bot"
    /\ bot_pc["main"] = "ready"
    /\ (~gc_running /\ IdleLoopLive) => Len(gc_orphans) < MaxOrphans
    /\ bot_op' = [kind |-> "start_idle_animations", arg |-> <<Bool(gc_running), gc_thread>>]
    /\ bot_result' = "returned"
    /\ bot_writes' = 0
    /\ bot_failed' = FALSE
    /\ IF gc_running
       THEN /\ bot_pc' = [bot_pc EXCEPT !["main"] = "return"]
            /\ UNCHANGED <<gc_running, gc_thread, gc_orphans, bot_servo>>
       ELSE /\ gc_running' = TRUE
            /\ gc_thread' = "started"
            /\ gc_orphans' = IF IdleLoopLive
                             THEN Append(gc_orphans, [pc |-> bot_pc["idle"], servo |-> bot_servo])
                             ELSE gc_orphans
            /\ bot_servo' = <<>>
            /\ bot_pc' = [bot_pc EXCEPT !["main"] = "return", !["idle"] = "while"]
    /\ UNCHANGED <<program, convVars, memVars, serialVars, clampVars, detectVars, rufusVars, apiVars, connection, bot_ret, bot_steps,
                   bot_wire>>

\* The sequence s without its i-th element
Remove(s, i) == SubSeq(s, 1, i - 1) \o SubSeq(s, i + 1, Len(s))

\* gesture_controller.py:140-146, run by the i-th loop no attribute names: the
\* while test; the thread ends when the flag is clear
bot_orphan_while(i) ==
    /\ program = "bot"
    /\ i \in 1..Len(gc_orphans)
    /\ gc_orphans[i].pc = "while"
    /\ gc_orphans' = IF gc_running
                     THEN [gc_orphans EXCEPT ![i].pc = "sleep"]
                     ELSE Remove(gc_orphans, i)
    /\ UNCHANGED <<program, convVars, memVars, serialVars, clampVars, detectVars, rufusVars, apiVars, connection, gc_running, gc_thread,
                   bot_pc, bot_ret, bot_steps, bot_servo, bot_op, bot_result, bot_writes, bot_failed,
                   bot_wire>>

\* gesture_controller.py:146-152, run by that loop: the sleep ends; break if
\* the flag is clear, otherwise natural_movement() draws its servo and angle
bot_orphan_wake(i) ==
    /\ program = "bot"
    /\ i \in 1..Len(gc_orphans)
    /\ gc_orphans[i].pc = "sleep"
    /\ IF ~gc_running
       THEN gc_orphans' = Remove(gc_orphans, i)
       ELSE \E st \in natural_movement_steps :
               gc_orphans' = [gc_orphans EXCEPT ![i] = [pc |-> "move", servo |-> st]]
    /\ UNCHANGED <<program, convVars, memVars, serialVars, clampVars, detectVars, rufusVars, apiVars, connection, gc_running, gc_thread,
                   bot_pc, bot_ret, bot_steps, bot_servo, bot_op, bot_result, bot_writes, bot_failed,
                   bot_wire>>

\* arduino_controller.py:157-161, run by that loop: the two moves of
\* natural_movement
bot_orphan_move(i) ==
    /\ program = "bot"
    /\ i \in 1..Len(gc_orphans)
    /\ gc_orphans[i].pc = "move"
    /\ \E ok \in BOOLEAN, n \in {0, 1} :
          bot_send_command("orphan", Head(gc_orphans[i].servo), ok, n)
    /\ gc_orphans' = [gc_orphans EXCEPT
                        ![i] = [pc |-> IF Len(gc_orphans[i].servo) = 1 THEN "while" ELSE "move",
                                servo |-> Tail(gc_orphans[i].servo)]]
    /\ UNCHANGED <<program, convVars, memVars, serialVars, clampVars, detectVars, rufusVars, apiVars, connection, gc_running, gc_thread,
                   bot_pc, bot_ret, bot_steps, bot_servo, bot_op, bot_result, bot_writes, bot_failed>>

\* Calls of start_idle_animations and stop_idle_animations in any order, and the
\* loops they leave running
NextRestart ==
    \/ bot_start_idle_animations_call
    \/ bot_stop_idle_animations("return")
    \/ bot_join
    \/ bot_return
    \/ bot_idle_while
    \/ bot_idle_wake
    \/ bot_idle_move
    \/ \E i \in 1..MaxOrphans : bot_orphan_while(i)
    \/ \E i \in 1..MaxOrphans : bot_orphan_wake(i)
    \/ \E i \in 1..MaxOrphans : bot_orphan_move(i)

SpecRestart == InitController /\ [][NextRestart]_vars

--------------------------------------------------------------------------
(* src/pi_api_server.py *)

ApiServos == {"pan", "left_arm", "right_arm"}

\* pi_api_server.py:83-87
API_SERVO_PINS ==
    [s \in ApiServos |-> CASE s = "pan" -> 2 [] s = "left_arm" -> 4 [] s = "right_arm" -> 5]

\* Servo names a request may carry: the three servos and one that does not exist.
ApiServoNames == ApiServos \cup {"head"}

\* pi_api_server.py:90-122
GESTURES ==
    [wave |-> << <<"pan", 90>>, <<"right_arm", 70>>, <<"right_arm", 40>>,
                 <<"right_arm", 70>>, <<"right_arm", 40>>, <<"right_arm", 70>>,
                 <<"right_arm", 40>>, <<"left_arm", 90>>, <<"right_arm", 90>> >>,
     nod |-> << <<"pan", 105>>, <<"pan", 75>>, <<"pan", 105>>, <<"pan", 75>>, <<"pan", 90>> >>,
     shake |-> << <<"pan", 65>>, <<"pan", 115>>, <<"pan", 65>>, <<"pan", 115>>, <<"pan", 90>> >>,
     happy |-> << <<"left_arm", 170>>, <<"right_arm", 170>>, <<"pan", 75>>,
                  <<"pan", 105>>, <<"pan", 75>>, <<"pan", 105>>,
                  <<"left_arm", 90>>, <<"right_arm", 90>>, <<"pan", 90>> >>,
     sad |-> << <<"pan", 50>>, <<"left_arm", 60>>, <<"right_arm", 60>>,
                <<"pan", 50>>, <<"left_arm", 90>>, <<"right_arm", 90>>, <<"pan", 90>> >>,
     excited |-> << <<"left_arm", 170>>, <<"right_arm", 170>>, <<"pan", 60>>,
                    <<"pan", 120>>, <<"left_arm", 90>>, <<"right_arm", 90>>, <<"pan", 90>> >>,
     curious |-> << <<"pan", 70>>, <<"left_arm", 110>>, <<"right_arm", 110>>,
                    <<"pan", 70>>, <<"left_arm", 90>>, <<"right_arm", 90>>, <<"pan", 90>> >>,
     rest |-> << <<"pan", 90>>, <<"left_arm", 90>>, <<"right_arm", 90>> >>]

\* Angles a request may carry in 'angle': one inside 0..180 and one outside.
ApiAngles == {90, 200}

\* Names a request may carry in 'gesture': some of the table and two that are
\* not in it.
ApiGestureNames == {"nod", "rest", "yes", ""}

\* The command line f"{pin}:{angle}\n"
PinLine(pin, angle) == <<pin, ":", angle>>

\* str.startswith
startswith(line, prefix) ==
    /\ Len(line) >= Len(prefix)
    /\ SubSeq(line, 1, Len(prefix)) = prefix

\* Reply lines the device may have sent, as readline().decode().strip() yields
\* them: "OK", "OK 9", "ERR" and an empty line.
Replies == { <<"O", "K">>, <<"O", "K", " ", "9">>, <<"E", "R", "R">>, <<>> }

\* What the acknowledgment read of pi_api_server.py:168-175 finds: nothing
\* waiting in the input buffer after the 0.05 s, or a reply line.
Acks == {[kind |-> "nothing", line |-> <<>>]} \cup {[kind |-> "line", line |-> r] : r \in Replies}

\* send_servo_command that reports a failure when no acknowledgment is waiting
send_servo_command_needs_ack(h, k, pin, angle, ack, ok, w) ==
    \/ /\ api_arduino # "open"
       /\ ack = NoAck /\ ok = FALSE /\ w = FALSE
       /\ UNCHANGED api_wire
    \/ /\ api_arduino = "open"
       /\ w = TRUE
       /\ ack \in Acks
       /\ ok = IF ack.kind = "nothing" THEN FALSE ELSE startswith(ack.line, <<"O", "K">>)
       /\ api_wire' = [h |-> h, line |-> PinLine(pin, angle), kind |-> k,
                       contiguous |-> \/ k # "gesture"
                                      \/ ~api_wrote[h]
                                      \/ api_wire.h = h
                                      \/ api_wire.kind # "gesture",
                       after_failure |-> k = "gesture" /\ api_failed[h]]
    \/ /\ api_arduino = "open"
       /\ ack = NoAck /\ ok = FALSE /\ w = FALSE
       /\ UNCHANGED api_wire

\* pi_api_server.py:156-178  send_servo_command(pin, angle) on handler h, called
\* from a request of kind k: ack is what its acknowledgment read found, ok its
\* return value, w whether a line was written.
send_servo_command(h, k, pin, angle, ack, ok, w) ==
    \/ /\ api_arduino # "open"                  \* not connected
       /\ ack = NoAck /\ ok = FALSE /\ w = FALSE
       /\ UNCHANGED api_wire
    \/ /\ api_arduino = "open"                  \* write, sleep 0.05 s, read the ack
       /\ w = TRUE
       /\ ack \in Acks
       /\ ok = IF ack.kind = "nothing" THEN TRUE ELSE startswith(ack.line, <<"O", "K">>)
       /\ api_wire' = [h |-> h, line |-> PinLine(pin, angle), kind |-> k,
                       contiguous |-> \/ k # "gesture"
                                      \/ ~api_wrote[h]
                                      \/ api_wire.h = h
                                      \/ api_wire.kind # "gesture",
                       after_failure |-> k = "gesture" /\ api_failed[h]]
    \/ /\ api_arduino = "open"                  \* write raises
       /\ ack = NoAck /\ ok = FALSE /\ w = FALSE
       /\ UNCHANGED api_wire

\* Most lines the device sends while init_arduino waits
MaxGreeting == 2

\* Raw lines readline() may return during the wait, as their pieces: the token
\* with its line end, another word, the token followed by more text, and a
\* line holding a byte that is not UTF-8 (noise of the resetting board).
RawLines == { <<"READY", "\r", "\n">>, <<"BOOT", "\n">>, <<"READY", " ", "1", "\n">>,
              <<"xFF", "\n">> }

Greetings == UNION { [1..n -> RawLines] : n \in 0..MaxGreeting }

Whitespace == {" ", "\r", "\n"}

\* bytes.decode('utf-8') raises UnicodeDecodeError on such a line
decodable(line) == \A i \in 1..Len(line) : line[i] # "xFF"

RECURSIVE lstrip(_)
lstrip(line) ==
    IF line # <<>> /\ Head(line) \in Whitespace THEN lstrip(Tail(line)) ELSE line

RECURSIVE rstrip(_)
rstrip(line) ==
    IF line # <<>> /\ line[Len(line)] \in Whitespace
    THEN rstrip(SubSeq(line, 1, Len(line) - 1)) ELSE line

\* str.strip()
strip(line) == rstrip(lstrip(line))

\* pi_api_server.py:132-141: the loop that reads the lines received within the
\* 3 s: "ready" at the first line equal to READY, "raised" at the first line
\* that cannot be decoded, "timeout" when the lines run out
RECURSIVE wait_for_ready(_)
wait_for_ready(lines) ==
    IF lines = <<>> THEN "timeout"
    ELSE IF ~decodable(Head(lines)) THEN "raised"
    ELSE IF strip(Head(lines)) = <<"READY">> THEN "ready"
    ELSE wait_for_ready(Tail(lines))

\* pi_api_server.py:124-154  init_arduino(), before the server starts: the port
\* opens or not, and lines are the lines the device sends within the wait
init_arduino ==
    /\ program = "api"
    /\ api_arduino = "unopened"
    /\ api_init = NoInit
    /\ \E opened \in BOOLEAN, lines \in Greetings :
          /\ ~opened => lines = <<>>
          /\ IF opened /\ wait_for_ready(lines) # "raised"
             THEN /\ api_arduino' = "open"
                  /\ api_init' = [kind |-> "returned", opened |-> TRUE, lines |-> lines,
                                  ready |-> wait_for_ready(lines) = "ready",
                                  result |-> "True"]
             ELSE /\ api_arduino' = "none"           \* except Exception: arduino = None
                  /\ api_init' = [kind |-> "returned", opened |-> opened, lines |-> lines,
                                  ready |-> FALSE, result |-> "False"]
    /\ UNCHANGED <<program, convVars, memVars, serialVars, clampVars, detectVars, rufusVars, botVars, api_pc, api_req, api_seq, api_result,
                   api_wrote, api_failed, api_ack, api_wire>>

\* pi_api_server.py:415-418: init_arduino() has returned (its result is not
\* read) and app.run(...) starts to serve
app_run ==
    /\ program = "api"
    /\ api_init.kind = "returned"
    /\ api_init' = Serving
    /\ UNCHANGED <<program, convVars, memVars, serialVars, clampVars, detectVars, rufusVars, botVars, api_arduino, api_pc, api_req, api_seq,
                   api_result, api_wrote, api_failed, api_ack, api_wire>>

\* pi_api_server.py:282-294  POST /api/servo
control_servo(h, servo, angle) ==
    /\ program = "api"
    /\ api_init.kind = "serving"
    /\ api_pc[h] = "idle"
    /\ api_req' = [api_req EXCEPT ![h] = [kind |-> "servo", arg |-> <<servo, angle>>]]
    /\ IF servo \notin DOMAIN API_SERVO_PINS
       THEN /\ api_result' = [api_result EXCEPT ![h] = "False"]
            /\ UNCHANGED <<api_wrote, api_failed, api_ack, api_wire>>
       ELSE \E ack \in Acks \cup {NoAck}, ok \in BOOLEAN, w \in BOOLEAN :
               /\ send_servo_command(h, "servo", API_SERVO_PINS[servo], angle, ack, ok, w)
               /\ api_ack' = [api_ack EXCEPT ![h] = ack]
               /\ api_result' = [api_result EXCEPT ![h] = Bool(ok)]
               /\ api_wrote' = [api_wrote EXCEPT ![h] = w]
               /\ api_failed' = [api_failed EXCEPT ![h] = ~ok]
    /\ api_pc' = [api_pc EXCEPT ![h] = "respond"]
    /\ UNCHANGED <<program, convVars, memVars, serialVars, clampVars, detectVars, rufusVars, botVars, api_arduino, api_init, api_seq>>

\* perform_gesture that falls back to the rest gesture for an unknown name
perform_gesture_fallback(h, gesture_name) ==
    /\ program = "api"
    /\ api_init.kind = "serving"
    /\ api_pc[h] = "idle"
    /\ api_req' = [api_req EXCEPT ![h] = [kind |-> "gesture", arg |-> <<gesture_name>>]]
    /\ api_seq' = [api_seq EXCEPT ![h] = IF gesture_name \in DOMAIN GESTURES
                                         THEN GESTURES[gesture_name] ELSE GESTURES["rest"]]
    /\ api_pc' = [api_pc EXCEPT ![h] = "gesture"]
    /\ UNCHANGED <<program, convVars, memVars, serialVars, clampVars, detectVars, rufusVars, botVars, api_arduino, api_init, api_result,
                   api_wrote, api_failed, api_ack, api_wire>>

\* perform_gesture that runs the sequence from its last step to its first
perform_gesture_reversed(h, gesture_name) ==
    /\ program = "api"
    /\ api_init.kind = "serving"
    /\ api_pc[h] = "idle"
    /\ api_req' = [api_req EXCEPT ![h] = [kind |-> "gesture", arg |-> <<gesture_name>>]]
    /\ IF gesture_name \notin DOMAIN GESTURES
       THEN /\ api_result' = [api_result EXCEPT ![h] = "False"]
            /\ api_pc' = [api_pc EXCEPT ![h] = "respond"]
            /\ UNCHANGED api_seq
       ELSE /\ api_seq' = [api_seq EXCEPT ![h] =
                              [i \in 1..Len(GESTURES[gesture_name]) |->
                                 GESTURES[gesture_name][Len(GESTURES[gesture_name]) + 1 - i]]]
            /\ api_pc' = [api_pc EXCEPT ![h] = "gesture"]
            /\ UNCHANGED api_result
    /\ UNCHANGED <<program, convVars, memVars, serialVars, clampVars, detectVars, rufusVars, botVars, api_arduino, api_init, api_wrote, api_failed,
                   api_ack, api_wire>>

\* pi_api_server.py:296-303 and 180-185  POST /api/gesture: trigger_gesture
\* calls perform_gesture(gesture), which looks the name up
perform_gesture(h, gesture_name) ==
    /\ program = "api"
    /\ api_init.kind = "serving"
    /\ api_pc[h] = "idle"
    /\ api_req' = [api_req EXCEPT ![h] = [kind |-> "gesture", arg |-> <<gesture_name>>]]
    /\ IF gesture_name \notin DOMAIN GESTURES
       THEN /\ api_result' = [api_result EXCEPT ![h] = "False"]
            /\ api_pc' = [api_pc EXCEPT ![h] = "respond"]
            /\ UNCHANGED api_seq
       ELSE /\ api_seq' = [api_seq EXCEPT ![h] = GESTURES[gesture_name]]
            /\ api_pc' = [api_pc EXCEPT ![h] = "gesture"]
            /\ UNCHANGED api_result
    /\ UNCHANGED <<program, convVars, memVars, serialVars, clampVars, detectVars, rufusVars, botVars, api_arduino, api_init, api_wrote, api_failed,
                   api_ack, api_wire>>

\* Gesture tags get_ai_response may hand over (pi_api_server.py:245-246): one
\* for each branch of execute_gesture and a free-form one that matches none.
ChatGestures == {"yes", "no", "", "happy"}

\* pi_api_server.py:266-273  execute_gesture(gesture): the gesture it performs,
\* "" when no branch matches and nothing is performed
execute_gesture(gesture) ==
    IF gesture = "" \/ gesture = "neutral" THEN "rest"
    ELSE IF gesture = "yes" THEN "nod"
    ELSE IF gesture = "no" THEN "shake"
    ELSE ""

\* pi_api_server.py:317-346  POST /api/chat: get_ai_response yields the tag,
\* execute_gesture(gesture) runs, and the answer is success: True. The request
\* record keeps the name of the gesture performed and the tag.
chat(h, gesture) ==
    /\ program = "api"
    /\ api_init.kind = "serving"
    /\ api_pc[h] = "idle"
    /\ api_req' = [api_req EXCEPT ![h] = [kind |-> "chat",
                                          arg |-> <<execute_gesture(gesture), gesture>>]]
    /\ IF execute_gesture(gesture) = ""
       THEN /\ api_result' = [api_result EXCEPT ![h] = "True"]
            /\ api_pc' = [api_pc EXCEPT ![h] = "respond"]
            /\ UNCHANGED api_seq
       ELSE /\ api_seq' = [api_seq EXCEPT ![h] = GESTURES[execute_gesture(gesture)]]
            /\ api_pc' = [api_pc EXCEPT ![h] = "gesture"]
            /\ UNCHANGED api_result
    /\ UNCHANGED <<program, convVars, memVars, serialVars, clampVars, detectVars, rufusVars, botVars, api_arduino, api_init, api_wrote, api_failed,
                   api_ack, api_wire>>

\* perform_gesture_step that returns whether every send succeeded
perform_gesture_step_strict(h) ==
    /\ program = "api"
    /\ api_pc[h] = "gesture"
    /\ IF api_seq[h] = <<>>
       THEN /\ api_result' = [api_result EXCEPT ![h] = Bool(~api_failed[h])]
            /\ api_pc' = [api_pc EXCEPT ![h] = "respond"]
            /\ UNCHANGED <<api_seq, api_wrote, api_failed, api_wire>>
       ELSE LET servo == Head(api_seq[h])[1]
                angle == Head(api_seq[h])[2]
            IN /\ IF servo \in DOMAIN API_SERVO_PINS
                  THEN \E ack \in Acks \cup {NoAck}, ok \in BOOLEAN, w \in BOOLEAN :
                          /\ send_servo_command(h, "gesture", API_SERVO_PINS[servo], angle,
                                                ack, ok, w)
                          /\ api_wrote' = [api_wrote EXCEPT ![h] = @ \/ w]
                          /\ api_failed' = [api_failed EXCEPT ![h] = @ \/ ~ok]
                  ELSE UNCHANGED <<api_wrote, api_failed, api_wire>>
               /\ api_seq' = [api_seq EXCEPT ![h] = Tail(@)]
               /\ UNCHANGED <<api_result, api_pc>>
    /\ UNCHANGED <<program, convVars, memVars, serialVars, clampVars, detectVars, rufusVars, botVars, api_arduino, api_init, api_req, api_ack>>

\* perform_gesture_step that leaves the for loop at the first failed send
perform_gesture_step_abort(h) ==
    /\ program = "api"
    /\ api_pc[h] = "gesture"
    /\ IF api_seq[h] = <<>>
       THEN /\ api_result' = [api_result EXCEPT ![h] = "True"]
            /\ api_pc' = [api_pc EXCEPT ![h] = "respond"]
            /\ UNCHANGED <<api_seq, api_wrote, api_failed, api_wire>>
       ELSE LET servo == Head(api_seq[h])[1]
                angle == Head(api_seq[h])[2]
            IN /\ IF servo \in DOMAIN API_SERVO_PINS
                  THEN \E ack \in Acks \cup {NoAck}, ok \in BOOLEAN, w \in BOOLEAN :
                          /\ send_servo_command(h, "gesture", API_SERVO_PINS[servo], angle,
                                                ack, ok, w)
                          /\ api_wrote' = [api_wrote EXCEPT ![h] = @ \/ w]
                          /\ api_failed' = [api_failed EXCEPT ![h] = @ \/ ~ok]
                          /\ IF ok
                             THEN UNCHANGED <<api_result, api_pc>>
                             ELSE /\ api_result' = [api_result EXCEPT ![h] = "True"]
                                  /\ api_pc' = [api_pc EXCEPT ![h] = "respond"]
                  ELSE UNCHANGED <<api_wrote, api_failed, api_wire, api_result, api_pc>>
               /\ api_seq' = [api_seq EXCEPT ![h] = Tail(@)]
    /\ UNCHANGED <<program, convVars, memVars, serialVars, clampVars, detectVars, rufusVars, botVars, api_arduino, api_init, api_req, api_ack>>

\* pi_api_server.py:186-191: one turn of the for loop (send, sleep 0.15 s), or
\* the return True after the last one
perform_gesture_step(h) ==
    /\ program = "api"
    /\ api_pc[h] = "gesture"
    /\ IF api_seq[h] = <<>>
       THEN /\ api_result' = [api_result EXCEPT ![h] = "True"]
            /\ api_pc' = [api_pc EXCEPT ![h] = "respond"]
            /\ UNCHANGED <<api_seq, api_wrote, api_failed, api_wire>>
       ELSE LET servo == Head(api_seq[h])[1]
                angle == Head(api_seq[h])[2]
            IN /\ IF servo \in DOMAIN API_SERVO_PINS
                  THEN \E ack \in Acks \cup {NoAck}, ok \in BOOLEAN, w \in BOOLEAN :
                          /\ send_servo_command(h, "gesture", API_SERVO_PINS[servo], angle,
                                                ack, ok, w)
                          /\ api_wrote' = [api_wrote EXCEPT ![h] = @ \/ w]
                          /\ api_failed' = [api_failed EXCEPT ![h] = @ \/ ~ok]
                  ELSE UNCHANGED <<api_wrote, api_failed, api_wire>>
               /\ api_seq' = [api_seq EXCEPT ![h] = Tail(@)]
               /\ UNCHANGED <<api_result, api_pc>>
    /\ UNCHANGED <<program, convVars, memVars, serialVars, clampVars, detectVars, rufusVars, botVars, api_arduino, api_init, api_req, api_ack>>

\* The handler returns jsonify({'success': ...}) (pi_api_server.py:294, 303)
\* and its thread is free for the next request.
api_respond(h) ==
    /\ program = "api"
    /\ api_pc[h] = "respond"
    /\ api_pc' = [api_pc EXCEPT ![h] = "idle"]
    /\ api_req' = [api_req EXCEPT ![h] = NoOp]
    /\ api_result' = [api_result EXCEPT ![h] = "none"]
    /\ api_wrote' = [api_wrote EXCEPT ![h] = FALSE]
    /\ api_failed' = [api_failed EXCEPT ![h] = FALSE]
    /\ api_ack' = [api_ack EXCEPT ![h] = NoAck]
    /\ UNCHANGED <<program, convVars, memVars, serialVars, clampVars, detectVars, rufusVars, botVars, api_arduino, api_init, api_seq, api_wire>>

InitApi ==
    /\ program = "api"
    /\ RufusUnstarted
    /\ SerialUnstarted
    /\ ConvUnstarted
    /\ MemUnstarted
    /\ BotUnstarted
    /\ ApiUnstarted
    /\ ClampUnstarted
    /\ DetectUnstarted

NextApi ==
    \/ init_arduino
    \/ app_run
    \/ \E h \in Handlers, servo \in ApiServoNames, angle \in ApiAngles : control_servo(h, servo, angle)
    \/ \E h \in Handlers, name \in ApiGestureNames : perform_gesture(h, name)
    \/ \E h \in Handlers, gesture \in ChatGestures : chat(h, gesture)
    \/ \E h \in Handlers : perform_gesture_step(h)
    \/ \E h \in Handlers : api_respond(h)

SpecApi == InitApi /\ [][NextApi]_vars

\* perform_gesture of either implementation
SpecPerform == (InitBot \/ InitApi) /\ [][NextBot \/ NextApi]_vars

--------------------------------------------------------------------------
(* src/pi_api_server.py: the serial input buffer across init_arduino and the
   sends, on its own. Each line in the buffer carries what it answers: 0 for
   a line of the greeting, k for the reply to the k-th command. *)

\* Commands sent in one run
MaxSends == 2

\* Raw reply lines of the device to a command
ReplyLines == { <<"O", "K", "\r", "\n">>, <<"E", "R", "R", "\n">> }

\* pi_api_server.py:134-141: the lines the loop leaves unread: those after the
\* line equal to READY, at which it breaks
RECURSIVE unread_after_ready(_)
unread_after_ready(lines) ==
    IF lines = <<>> THEN <<>>
    ELSE IF strip(Head(lines)) = <<"READY">> THEN Tail(lines)
    ELSE unread_after_ready(Tail(lines))

\* The lines as entries of the input buffer that answer command k
InBuffer(lines, k) == [i \in 1..Len(lines) |-> [of |-> k, raw |-> lines[i]]]

\* pi_api_server.py:124-154  init_arduino() with the port open: of the lines
\* the device sends, the first n arrive while the loop of lines 134-141 runs
\* and the others after it has ended. A line that cannot be decoded raises
\* and leaves arduino None; otherwise what was not read stays in the buffer.
serial_init_arduino ==
    /\ program = "serial"
    /\ ser_pc = "init"
    /\ \E lines \in Greetings, n \in 0..MaxGreeting :
          /\ n <= Len(lines)
          /\ LET early == SubSeq(lines, 1, n)
                 late  == SubSeq(lines, n + 1, Len(lines))
             IN  IF wait_for_ready(early) = "raised"
                 THEN /\ ser_pc' = "off"
                      /\ in_waiting' = <<>>
                 ELSE /\ ser_pc' = "serving"
                      /\ in_waiting' = InBuffer(unread_after_ready(early) \o late, 0)
    /\ UNCHANGED <<program, convVars, memVars, rufusVars, botVars, apiVars, clampVars, detectVars, ser_sent, ser_pending,
                   ser_ack>>

\* pi_api_server.py:156-178  send_servo_command(pin, angle), the k-th send: the
\* write, the 0.05 s, then in_waiting and readline(). The device answers with
\* line r within the 0.05 s, after them, or not at all.
serial_send_servo_command ==
    /\ program = "serial"
    /\ ser_pc = "serving"
    /\ ser_sent < MaxSends
    /\ ser_sent' = ser_sent + 1
    /\ \E when \in {"in_time", "late", "never"}, r \in ReplyLines :
          LET k     == ser_sent + 1
              reply == [of |-> k, raw |-> r]
              buf   == IF when = "in_time" THEN Append(in_waiting, reply) ELSE in_waiting
          IN  /\ ser_pending' = IF when = "late" THEN ser_pending \cup {reply} ELSE ser_pending
              /\ IF buf = <<>>                            \* in_waiting = 0
                 THEN /\ in_waiting' = buf
                      /\ ser_ack' = [cmd |-> k, kind |-> "nothing", of |-> 0, line |-> <<>>,
                                     ok |-> "True"]
                 ELSE /\ in_waiting' = Tail(buf)         \* readline()
                      /\ ser_ack' =
                            IF decodable(Head(buf).raw)
                            THEN [cmd |-> k, kind |-> "line", of |-> Head(buf).of,
                                  line |-> strip(Head(buf).raw),
                                  ok |-> Bool(startswith(strip(Head(buf).raw), <<"O", "K">>))]
                            ELSE [cmd |-> k, kind |-> "raised", of |-> Head(buf).of,
                                  line |-> <<>>, ok |-> "False"]
    /\ UNCHANGED <<program, convVars, memVars, rufusVars, botVars, apiVars, clampVars, detectVars, ser_pc>>

\* The device sends a reply it still owed; it is queued in the input buffer
\* (nothing in pi_api_server.py reads or discards it until the next send).
serial_late_reply ==
    /\ program = "serial"
    /\ \E reply \in ser_pending :
          /\ in_waiting' = Append(in_waiting, reply)
          /\ ser_pending' = ser_pending \ {reply}
    /\ UNCHANGED <<program, convVars, memVars, rufusVars, botVars, apiVars, clampVars, detectVars, ser_pc, ser_sent,
                   ser_ack>>

InitSerial ==
    /\ program = "serial"
    /\ RufusUnstarted
    /\ SerialUnstarted
    /\ ConvUnstarted
    /\ MemUnstarted
    /\ BotUnstarted
    /\ ApiUnstarted
    /\ ClampUnstarted
    /\ DetectUnstarted

NextSerial ==
    \/ serial_init_arduino
    \/ serial_send_servo_command
    \/ serial_late_reply

SpecSerial == InitSerial /\ [][NextSerial]_vars

--------------------------------------------------------------------------
(* src/src/conversation.py: ConversationManager, on its own *)

\* config.py:24
MAX_CONVERSATION_TURNS == 10

\* get_response calls in one run
MaxCalls == 7

\* conversation.py:49-50: self.messages.pop(1) twice
pop_1_twice(msgs) == <<msgs[1]>> \o SubSeq(msgs, 4, Len(msgs))

\* Does the add_message that appends to msgs trim (conversation.py:46-48)
trims(msgs) == Len(msgs) + 1 > MAX_CONVERSATION_TURNS + 1 /\ Len(msgs) + 1 >= 3

\* conversation.py:35-52  add_message(role, content): self.messages after it
add_message(msgs, entry) ==
    IF trims(msgs) THEN pop_1_twice(Append(msgs, entry)) ELSE Append(msgs, entry)

\* The entries that add_message removes: the second and third after the append
removed_by(msgs, entry) ==
    IF trims(msgs) THEN SubSeq(Append(msgs, entry), 2, 3) ELSE <<>>

\* conversation.py:54-80  get_response(user_input): the user message is added,
\* then the request to the AI succeeds (ok) and its answer is added, or it
\* raises and None is returned with the user message left in the history.
get_response ==
    /\ program = "conversation"
    /\ conv_calls < MaxCalls
    /\ conv_calls' = conv_calls + 1
    /\ \E ok \in BOOLEAN :
          LET user      == [role |-> "user", turn |-> conv_calls + 1]
              assistant == [role |-> "assistant", turn |-> conv_calls + 1]
              asked     == add_message(messages, user)
          IN  IF ok
              THEN /\ messages' = add_message(asked, assistant)
                   /\ conv_removed' = removed_by(messages, user) \o removed_by(asked, assistant)
                   /\ conv_result' = "message"
              ELSE /\ messages' = asked
                   /\ conv_removed' = removed_by(messages, user)
                   /\ conv_result' = "None"
    /\ UNCHANGED <<program, memVars, serialVars, rufusVars, botVars, apiVars, clampVars, detectVars>>

InitConversation ==
    /\ program = "conversation"
    /\ RufusUnstarted
    /\ SerialUnstarted
    /\ ConvUnstarted
    /\ MemUnstarted
    /\ BotUnstarted
    /\ ApiUnstarted
    /\ ClampUnstarted
    /\ DetectUnstarted

NextConversation == get_response

SpecConversation == InitConversation /\ [][NextConversation]_vars

--------------------------------------------------------------------------
(* src/rufus.py: add_to_memory and clear_memory, on their own *)

\* rufus.py:36
MAX_TURNS == 10

\* Pairs added between two clear_memory calls
MaxAdds == 11

Questions == {"q1", "q2"}
AnswerTexts == {"a1"}

\* The two entries of one exchange (rufus.py:103-104)
Exchange(question, reply) ==
    << [role |-> "user", content |-> question], [role |-> "assistant", content |-> reply] >>

\* list[-n:]
LastN(list, n) == IF Len(list) <= n THEN list ELSE SubSeq(list, Len(list) - n + 1, Len(list))

\* add_to_memory whose trim keeps the oldest exchanges
add_to_memory_keeps_oldest(question, reply) ==
    /\ program = "memory"
    /\ Len(mem_log) < MaxAdds
    /\ LET appended == conversation_history \o Exchange(question, reply)
       IN  conversation_history' =
              IF Len(appended) > 1 + 2 * MAX_TURNS
              THEN SubSeq(appended, 1, 1 + 2 * MAX_TURNS)
              ELSE appended
    /\ mem_log' = Append(mem_log, <<question, reply>>)
    /\ UNCHANGED <<program, convVars, serialVars, rufusVars, botVars, apiVars, clampVars, detectVars>>

\* rufus.py:101-110  add_to_memory(question, answer): two appends, then the trim
\* to the system prompt and the last 2 * MAX_TURNS entries
add_to_memory(question, reply) ==
    /\ program = "memory"
    /\ Len(mem_log) < MaxAdds
    /\ LET appended == conversation_history \o Exchange(question, reply)
       IN  conversation_history' =
              IF Len(appended) > 1 + 2 * MAX_TURNS
              THEN <<appended[1]>> \o LastN(appended, 2 * MAX_TURNS)
              ELSE appended
    /\ mem_log' = Append(mem_log, <<question, reply>>)
    /\ UNCHANGED <<program, convVars, serialVars, rufusVars, botVars, apiVars, clampVars, detectVars>>

\* rufus.py:112-124  clear_memory(): the list is replaced by the system prompt
clear_memory ==
    /\ program = "memory"
    /\ conversation_history' = <<SystemEntry>>
    /\ mem_log' = <<>>
    /\ UNCHANGED <<program, convVars, serialVars, rufusVars, botVars, apiVars, clampVars, detectVars>>

InitMemory ==
    /\ program = "memory"
    /\ RufusUnstarted
    /\ SerialUnstarted
    /\ ConvUnstarted
    /\ MemUnstarted
    /\ BotUnstarted
    /\ ApiUnstarted
    /\ ClampUnstarted
    /\ DetectUnstarted

NextMemory ==
    \/ \E question \in Questions, reply \in AnswerTexts : add_to_memory(question, reply)
    \/ clear_memory

SpecMemory == InitMemory /\ [][NextMemory]_vars

--------------------------------------------------------------------------
(* The clamping step of the idle movements, applied to drawn inputs *)

\* rufus.py:154-158: rest_pos + random.randint(-15, 15) is one of these
IdleTargets(servo) == { SERVO_LIMITS[servo].rest + d : d \in (-15)..15 }

\* arduino_controller.py:151-154: current_angle + random.randint(-15, 15)
NaturalTargets(servo) == { SERVO_HOME_POSITIONS[servo] + d : d \in (-15)..15 }

\* rufus.py:159  new_pos = max(limits["min"], min(limits["max"], new_pos))
apply_clamp ==
    /\ program = "clamp"
    /\ clamp_loop = "idle_animation_loop"
    /\ ~clamp_done
    /\ clamp_res' = clamp(SERVO_LIMITS[clamp_servo], clamp_arg)
    /\ clamp_done' = TRUE
    /\ UNCHANGED <<program, convVars, memVars, serialVars, detectVars, rufusVars, botVars, apiVars, clamp_loop, clamp_servo, clamp_arg>>

\* arduino_controller.py:155  new_angle = max(0, min(180, new_angle))
apply_natural_clamp ==
    /\ program = "clamp"
    /\ clamp_loop = "natural_movement"
    /\ ~clamp_done
    /\ clamp_res' = clamp_0_180(clamp_arg)
    /\ clamp_done' = TRUE
    /\ UNCHANGED <<program, convVars, memVars, serialVars, detectVars, rufusVars, botVars, apiVars, clamp_loop, clamp_servo, clamp_arg>>

\* The inputs: for rufus.py every servo and every integer angle of the bound
\* (the targets of the idle loop among them); for natural_movement every servo
\* and every target it can compute.
InitClamp ==
    /\ program = "clamp"
    /\ RufusUnstarted
    /\ SerialUnstarted
    /\ ConvUnstarted
    /\ MemUnstarted
    /\ BotUnstarted
    /\ ApiUnstarted
    /\ DetectUnstarted
    /\ clamp_servo \in Servos
    /\ \/ /\ clamp_loop = "idle_animation_loop"
          /\ clamp_arg \in (-MaxAngle)..MaxAngle
       \/ /\ clamp_loop = "natural_movement"
          /\ clamp_arg \in NaturalTargets(clamp_servo)
    /\ clamp_res = 0
    /\ clamp_done = FALSE

NextClamp ==
    \/ apply_clamp
    \/ apply_natural_clamp

SpecClamp == InitClamp /\ [][NextClamp]_vars

--------------------------------------------------------------------------
(* ArduinoController._detect_port, applied to drawn inputs *)

\* Most ports comports() lists
MaxPorts == 2

\* A port as _detect_port sees it: its device path, and the substrings of the
\* path and of the description that the tests of lines 45-48 look for.
Port(device, in_device, in_description) ==
    [device |-> device, in_device |-> in_device, in_description |-> in_description]

\* config.py:42  SERIAL_PORT
SERIAL_PORT == "/dev/cu.usbserial-14210"

PortKinds ==
    { Port("/dev/ttyACM0", {}, {"Arduino"}),
      Port("/dev/ttyUSB0", {}, {"CH340"}),
      Port(SERIAL_PORT, {"usbserial", "cu.usb"}, {}),
      Port("/dev/cu.usbmodem1", {"cu.usb"}, {}),
      Port("COM3-USBSERIAL", {"USBSERIAL"}, {}),
      Port("/dev/ttyS0", {}, {"Bluetooth"}) }

\* Ports a caller may prefer: the default, one with no signature, an Arduino
PreferredPorts == {SERIAL_PORT, "/dev/ttyS0", "/dev/ttyACM0"}

\* str.lower() on the substrings the model keeps
lower(w) == IF w = "USBSERIAL" THEN "usbserial" ELSE w

\* arduino_controller.py:45-48: the test of the list comprehension
is_arduino_port(p) ==
    \/ "Arduino" \in p.in_description
    \/ "CH340" \in p.in_description
    \/ "usbserial" \in { lower(w) : w \in p.in_device }
    \/ "cu.usb" \in p.in_device

\* arduino_controller.py:43-49: arduino_ports, in the order of ports
RECURSIVE arduino_ports(_)
arduino_ports(ports) ==
    IF ports = <<>> THEN <<>>
    ELSE IF is_arduino_port(Head(ports))
         THEN <<Head(ports).device>> \o arduino_ports(Tail(ports))
         ELSE arduino_ports(Tail(ports))

\* arduino_controller.py:33-60  _detect_port(preferred_port)
detect_port(ports, preferred_port) ==
    IF arduino_ports(ports) # <<>> THEN arduino_ports(ports)[1] ELSE preferred_port

\* arduino_controller.py:32  self.port = self._detect_port(port)
apply_detect_port ==
    /\ program = "detect"
    /\ ~detect_done
    /\ detect_res' = detect_port(detect_ports, detect_pref)
    /\ detect_done' = TRUE
    /\ UNCHANGED <<program, convVars, memVars, serialVars, clampVars, rufusVars, botVars, apiVars, detect_ports, detect_pref>>

\* The ports listed are distinct devices
PortLists ==
    { ps \in UNION { [1..n -> PortKinds] : n \in 0..MaxPorts } :
         \A i, j \in 1..Len(ps) : i # j => ps[i] # ps[j] }

InitDetect ==
    /\ program = "detect"
    /\ RufusUnstarted
    /\ SerialUnstarted
    /\ ConvUnstarted
    /\ MemUnstarted
    /\ BotUnstarted
    /\ ApiUnstarted
    /\ ClampUnstarted
    /\ detect_ports \in PortLists
    /\ detect_pref \in PreferredPorts
    /\ detect_res = ""
    /\ detect_done = FALSE

NextDetect == apply_detect_port

SpecDetect == InitDetect /\ [][NextDetect]_vars

--------------------------------------------------------------------------
(* Claims about src/rufus.py *)

\* The idle thread is inside a movement it has begun.
IdleInSend == pc["idle"] \in {"send_write", "send_ack"}

\* main() is in the middle of a response cycle (rufus.py:337-370).
CycleLabels == {"transcribe", "think", "after_gesture", "movement_loop", "speak"}
MidCycle ==
    \/ pc["main"] \in CycleLabels
    \/ pc["main"] \in {"send_write", "send_ack"} /\ ret["main"] \in CycleLabels

\* C2: while conversation_locked is set, the idle thread writes no command
\* (not even the return-to-rest of a movement begun before the lock).
C2_IdleSilentWhileLocked ==
    wire.src = "idle" => ~wire.locked

\* C3: at most one send_command (write plus acknowledgment read) is in flight
\* on the serial link at any time.
C3_SendsSerialized ==
    Cardinality({t \in Threads : pc[t] = "send_ack"}) <= 1

\* C5: the shutdown's rest command and the close come only after the idle
\* thread has ended: the idle thread writes nothing after the shutdown's rest
\* was written and is in no send_command once the link is closed.
C5_NoIdleCommandAfterShutdownRest ==
    /\ wire.src = "idle" => ~wire.after_rest
    /\ arduino = "closed" => ~IdleInSend

\* C11: if from some point on the animator runs with the hardware attached and
\* the lock stays released, the idle thread sends the first command of an idle
\* movement again and again (a skipped cycle went back to a new sleep).
C11_IdleProceedsAfterRelease ==
    <>[](idle_animation_running /\ arduino = "open" /\ ~conversation_locked)
        => []<>(pc["idle"] = "send_write" /\ ret["idle"] = "hold" /\ IsMove(cmd["idle"]))

C11_Witness ==
    /\ pc["idle"] = "send_write" /\ ret["idle"] = "hold" /\ IsMove(cmd["idle"])
    /\ idle_animation_running /\ arduino = "open" /\ ~conversation_locked
    /\ pc["main"] = "input"
    /\ wire.src = "main" /\ wire.locked /\ wire.animator

\* C9, in src/rufus.py: every line main() writes once the idle thread has been
\* started is written with conversation_locked set.
C9_MainWritesUnderLock ==
    (wire.src = "main" /\ wire.animator) => wire.locked

\* C10: whenever main() waits for the next input the lock is clear, whatever
\* failure was handled in the cycle before; and in the middle of a response
\* cycle the lock is set.
C10_LockReleasedAtInput ==
    /\ pc["main"] \in {"input", "clear_speak"} => ~conversation_locked
    /\ MidCycle => conversation_locked

C10_Witness ==
    /\ pc["main"] = "input"
    /\ failure = "transcribe"
    /\ ~conversation_locked
    /\ wire.src = "main" /\ wire.locked /\ wire.cmd = Token("rest") /\ wire.animator

--------------------------------------------------------------------------
(* Claims about src/src (ArduinoController, GestureController) *)

\* C1: every move command on the wire carries an angle inside the safe range
\* of its servo, whatever angle the caller asked for.
C1_WireAnglesInRange ==
    IsMove(bot_wire.cmd) =>
        /\ bot_wire.cmd[3] >= SERVO_RANGES[bot_wire.cmd[1]].min
        /\ bot_wire.cmd[3] <= SERVO_RANGES[bot_wire.cmd[1]].max

\* C9: every line the foreground path (RufusBot.__init__, respond, shutdown)
\* writes once the idle animations have been started is written while the
\* idle loop is held off.
C9_ForegroundWritesSuppressed ==
    (bot_wire.src = "main" /\ bot_wire.animator) => bot_wire.suppressed

\* C12: stop_idle_animations returns normally and leaves the run flag clear,
\* whether it found the animations running, already stopped or never started
\* (then it changes nothing), and its join cannot block for ever.
C12_StopIdempotent ==
    /\ (bot_op.kind = "stop_idle_animations" /\ bot_pc["main"] = "return")
          => /\ bot_result = "returned"
             /\ ~gc_running
             /\ gc_thread = bot_op.arg[2]
    /\ (bot_op.kind = "stop_idle_animations" /\ bot_pc["main"] = "join")
          => ENABLED bot_join

C12_Witness ==
    /\ bot_op = [kind |-> "stop_idle_animations", arg |-> <<"False", "none">>]
    /\ bot_pc["main"] = "return"
    /\ bot_result = "returned"
    /\ bot_wire.src = "main"

\* C13: an idle thread that is in its interval sleep when the run flag is
\* cleared goes from the sleep to its end, never to a movement, and does end.
C13_StopDuringSleepSendsNothing ==
    /\ [][(pc["idle"] = "sleep" /\ ~idle_animation_running)
            => pc'["idle"] \in {"sleep", "done"}]_vars
    /\ [][(bot_pc["idle"] = "sleep" /\ ~gc_running)
            => bot_pc'["idle"] \in {"sleep", "done"}]_vars
    /\ (pc["idle"] = "sleep" /\ ~idle_animation_running) ~> (pc["idle"] = "done")
    /\ (bot_pc["idle"] = "sleep" /\ ~gc_running) ~> (bot_pc["idle"] = "done")

C13_Witness ==
    \/ /\ pc["idle"] = "done" /\ pc["main"] = "join"
       /\ wire.src = "main" /\ ~wire.animator /\ arduino = "open"
    \/ /\ bot_pc["idle"] = "done" /\ bot_pc["main"] = "join"
       /\ bot_wire.src = "main" /\ bot_wire.cmd = Token("neutral") /\ connection = "open"

\* C17: after a send whose write raised, the link is no longer connected, and
\* no later send of the same caller writes to the device.
C17_WriteFailureDisconnects ==
    /\ bot_failed => connection # "open"
    /\ bot_wire.src = "main" => ~bot_wire.after_failure

\* The part of C18 that the controller keeps: with no link nothing is written,
\* no send reports a failure, and every gesture of the table returns True.
C18_DegradedNoWrites ==
    connection = "none" =>
        /\ bot_wire = NoBotWrite
        /\ ~bot_failed
        /\ bot_pc["main"] = "return" => bot_writes = 0
        /\ (bot_op.kind = "perform_gesture" /\ bot_op.arg[1] \in BotGestures
               /\ bot_pc["main"] = "return") => bot_result = "True"

\* C18: after the connection failed at startup every send returns an outcome
\* that differs from the outcome of a command that was sent, writes nothing,
\* and gestures and idle cycles go on without reporting a failure.
C18_DegradedSendUnavailable ==
    /\ C18_DegradedNoWrites
    /\ (connection = "none" /\ bot_op.kind = "move_servo" /\ bot_op.arg[1] \in DOMAIN SERVO_PINS
           /\ bot_pc["main"] = "return") => bot_result # "True"

\* C19: perform_gesture returns False exactly when the name is not in the
\* gesture table; for a gesture of the table it returns True whichever of its
\* sends failed.
C19_PerformFalseOnlyIfUnknown ==
    /\ (bot_op.kind = "perform_gesture" /\ bot_pc["main"] = "return")
          => bot_result = Bool(bot_op.arg[1] \in BotGestures)
    /\ \A h \in Handlers :
          (api_req[h].kind = "gesture" /\ api_pc[h] = "respond")
            => api_result[h] = Bool(api_req[h].arg[1] \in DOMAIN GESTURES)

C19_Witness ==
    /\ bot_op = [kind |-> "perform_gesture", arg |-> <<"thinking">>]
    /\ bot_pc["main"] = "return"
    /\ bot_result = "True"
    /\ bot_failed
    /\ bot_writes = 2

\* s is what remains of t after some of its first elements were taken
IsSuffix(s, t) == \E k \in 0..Len(t) : s = SubSeq(t, k + 1, Len(t))

\* C20: a failed send never ends a gesture early. While a gesture of the table
\* runs, the steps still to send are a tail of its sequence (each step is taken
\* from the front, in order, whether the sends before it failed or not), and
\* the gesture returns only when no step is left.
C20_FailedStepDoesNotAbort ==
    /\ \A h \in Handlers :
          (api_req[h].kind = "gesture" /\ api_req[h].arg[1] \in DOMAIN GESTURES) =>
             /\ api_pc[h] = "gesture" => IsSuffix(api_seq[h], GESTURES[api_req[h].arg[1]])
             /\ api_pc[h] = "respond" => api_seq[h] = <<>>
    /\ (bot_op.kind = "perform_gesture" /\ bot_op.arg[1] \in BotGestures) =>
          /\ bot_pc["main"] = "gesture"
                => \E st \in gesture_steps(bot_op.arg[1]) : IsSuffix(bot_steps, st)
          /\ bot_pc["main"] = "return" => bot_steps = <<>>

\* a send of "rest" failed and its last step was still written after it
C20_Witness ==
    \E h \in Handlers :
       /\ api_req[h] = [kind |-> "gesture", arg |-> <<"rest">>]
       /\ api_pc[h] = "respond"
       /\ api_result[h] = "True"
       /\ api_failed[h]
       /\ api_wire.h = h
       /\ api_wire.after_failure
       /\ api_wire.line = PinLine(5, 90)

\* The step of its declared sequence that handler h sends next
DeclaredStep(h) ==
    LET seq == GESTURES[api_req[h].arg[1]]
    IN  seq[Len(seq) - Len(api_seq[h]) + 1]

\* One transition seen from handler h while its gesture has steps left: a line
\* h writes is the declared step at the position reached, and the position
\* moves on by one; a step whose send returned True was written.
StepInOrder(h) ==
    /\ (api_wire' # api_wire /\ api_wire'.h = h /\ api_wire'.kind = "gesture") =>
          /\ api_pc[h] = "gesture" /\ api_seq[h] # <<>>
          /\ api_wire'.line = PinLine(API_SERVO_PINS[DeclaredStep(h)[1]], DeclaredStep(h)[2])
          /\ api_seq'[h] = Tail(api_seq[h])
    /\ (api_pc[h] = "gesture" /\ api_seq'[h] # api_seq[h]) =>
          /\ api_seq'[h] = Tail(api_seq[h])
          /\ Head(api_seq[h]) = DeclaredStep(h)
          /\ ~api_failed'[h] =>
                /\ api_wire'.h = h /\ api_wire'.kind = "gesture"
                /\ api_wire'.line = PinLine(API_SERVO_PINS[DeclaredStep(h)[1]],
                                            DeclaredStep(h)[2])

\* C21: the lines one perform_gesture writes are the steps of the declared
\* sequence, same servo and angle, in the declared order, each position once;
\* when every send returned True none is missing; a step is sent only after
\* the step before it has returned and slept.
C21_StepsInDeclaredOrder == [][\A h \in Handlers : StepInOrder(h)]_vars

\* "nod" has run through: every send returned True and the last line is 2:90
C21_Witness ==
    \E h \in Handlers :
       /\ api_req[h] = [kind |-> "gesture", arg |-> <<"nod">>]
       /\ api_pc[h] = "respond"
       /\ ~api_failed[h]
       /\ api_wrote[h]
       /\ api_wire.h = h
       /\ api_wire.line = PinLine(2, 90)

\* pi_api_server.py:83-87: the servos in the order SERVO_PINS lists them
ApiServoOrder == <<"pan", "left_arm", "right_arm">>

\* C22: the rest gesture makes exactly three moves, one per servo in the order
\* the servo table declares them, each to the rest angle of that servo:
\* set_home_position sends head_80, left_arm_40, right_arm_135 and the "rest"
\* sequence of the API server sends 2:90, 4:90, 5:90.
C22_RestMovesEveryJointOnce ==
    /\ (bot_op.kind = "set_home_position" /\ connection = "open") =>
          /\ IsSuffix(bot_steps, HomeSteps)
          /\ bot_writes <= Len(ServoOrder)
          /\ ~bot_failed =>
                /\ bot_writes = Len(ServoOrder) - Len(bot_steps)
                /\ (bot_writes > 0 /\ bot_wire.src = "main") =>
                      bot_wire.cmd = Move(ServoOrder[bot_writes],
                                          SERVO_HOME_POSITIONS[ServoOrder[bot_writes]])
          /\ bot_pc["main"] = "return" => bot_steps = <<>>
    /\ \A h \in Handlers :
          (api_req[h] = [kind |-> "gesture", arg |-> <<"rest">>] /\ api_pc[h] \in {"gesture", "respond"}) =>
             /\ IsSuffix(api_seq[h], [i \in 1..Len(ApiServoOrder) |-> <<ApiServoOrder[i], 90>>])
             /\ api_pc[h] = "respond" => api_seq[h] = <<>>
             /\ (api_wire.h = h /\ api_wrote[h] /\ ~api_failed[h]) =>
                   LET i == Len(ApiServoOrder) - Len(api_seq[h])
                   IN  api_wire.line = PinLine(API_SERVO_PINS[ApiServoOrder[i]], 90)

C22_Witness ==
    /\ bot_op.kind = "set_home_position"
    /\ bot_pc["main"] = "return"
    /\ connection = "open"
    /\ ~bot_failed
    /\ bot_writes = 3
    /\ bot_wire.src = "main"
    /\ bot_wire.cmd = Move("right_arm", 135)

\* The last line of the "rest" sequence
LastRestLine ==
    LET st == GESTURES["rest"][Len(GESTURES["rest"])]
    IN  PinLine(API_SERVO_PINS[st[1]], st[2])

\* C23: rest comes first and after every gesture. The first line written after
\* the connection is a line of the rest gesture, and a request that performed
\* a gesture is answered only after the rest sequence: the last line its
\* handler wrote is the last line of rest.
C23_RestFirstAndAfterGesture ==
    [][ /\ (api_wire = NoApiWrite /\ api_wire' # NoApiWrite) =>
             \E h \in Handlers :
                /\ api_wire'.h = h
                /\ api_req'[h].kind \in {"gesture", "chat"}
                /\ api_req'[h].arg[1] = "rest"
        /\ \A h \in Handlers :
              (/\ api_pc[h] = "respond" /\ api_pc'[h] = "idle"
               /\ api_req[h].kind \in {"gesture", "chat"}
               /\ api_wrote[h] /\ ~api_failed[h] /\ api_wire.h = h)
                => api_wire.line = LastRestLine ]_vars

C26_CloseIdempotent ==
    bot_op.kind = "disconnect" =>
        /\ bot_result = "returned"
        /\ connection # "open"
        /\ bot_op.arg[1] # "open" => connection = bot_op.arg[1]

C26_Witness ==
    /\ bot_op = [kind |-> "disconnect", arg |-> <<"closed">>]
    /\ bot_pc["main"] = "off"
    /\ connection = "closed"
    /\ bot_result = "returned"

\* C27: once the port is open, init_arduino finds the device ready exactly
\* when a line equal to READY is among the lines received within the wait;
\* with or without it, it reports success and the link stays in use.
C27_HandshakeOptional ==
    (api_init.kind = "returned" /\ api_init.opened) =>
        /\ api_arduino = "open"
        /\ api_init.result = "True"
        /\ api_init.ready
              <=> \E i \in 1..Len(api_init.lines) : strip(api_init.lines[i]) = <<"READY">>

\* C28: the preferred port is used whenever it is among the ports listed; only
\* when it is not is the first listed port with a known signature taken, and
\* with no such port the preferred one is returned.
C28_PreferredPortFirst ==
    detect_done =>
        detect_res =
            IF \E i \in 1..Len(detect_ports) : detect_ports[i].device = detect_pref
            THEN detect_pref
            ELSE IF \E i \in 1..Len(detect_ports) : is_arduino_port(detect_ports[i])
                 THEN (LET first == CHOOSE i \in 1..Len(detect_ports) :
                                       /\ is_arduino_port(detect_ports[i])
                                       /\ \A j \in 1..(i - 1) : ~is_arduino_port(detect_ports[j])
                       IN  detect_ports[first].device)
                 ELSE detect_pref

\* The idle thread of src/rufus.py is inside a send_command that returns to r
IdleSending(r) == pc["idle"] \in {"send_write", "send_ack"} /\ ret["idle"] = r

\* a is within 15 of rest and inside min..max
NearRestInRange(a, rest, min, max) ==
    /\ a - rest <= 15 /\ rest - a <= 15
    /\ min <= a /\ a <= max

\* What the idle thread of src/rufus.py sends: the target of the servo drawn,
\* then that servo's rest angle
IdleCycleCommands ==
    /\ IdleSending("hold") =>
          /\ IsMove(cmd["idle"])
          /\ cmd["idle"][1] = idle_servo
          /\ NearRestInRange(cmd["idle"][3], SERVO_LIMITS[idle_servo].rest,
                             SERVO_LIMITS[idle_servo].min, SERVO_LIMITS[idle_servo].max)
    /\ IdleSending("while") => cmd["idle"] = Move(idle_servo, SERVO_LIMITS[idle_servo].rest)
    /\ pc["idle"] \in {"send_write", "send_ack"} => ret["idle"] \in {"hold", "while"}

\* The order of one cycle of src/rufus.py: the first send returns to the hold,
\* the hold is followed by the second send, and that one ends the cycle
IdleCycleOrder ==
    /\ (pc["idle"] = "check_lock" /\ pc'["idle"] # "check_lock") =>
          \/ pc'["idle"] = "while"
          \/ pc'["idle"] = "send_write" /\ ret'["idle"] = "hold"
    /\ (IdleSending("hold") /\ pc'["idle"] \notin {"send_write", "send_ack"}) =>
          pc'["idle"] = "hold"
    /\ (pc["idle"] = "hold" /\ pc'["idle"] # "hold") =>
          pc'["idle"] = "send_write" /\ ret'["idle"] = "while"
    /\ (IdleSending("while") /\ pc'["idle"] \notin {"send_write", "send_ack"}) =>
          pc'["idle"] = "while"

\* natural_movement of ArduinoController: two moves of one servo, the first
\* near its home angle and inside its range, the second to the home angle
NaturalCycle ==
    bot_pc["idle"] = "move" =>
        /\ Len(bot_servo) \in {1, 2}
        /\ \A i \in 1..Len(bot_servo) : IsMove(bot_servo[i]) /\ bot_servo[i][1] \in Servos
        /\ LET last == bot_servo[Len(bot_servo)]
           IN  /\ last[3] = SERVO_HOME_POSITIONS[last[1]]
               /\ Len(bot_servo) = 2 =>
                     /\ bot_servo[1][1] = last[1]
                     /\ NearRestInRange(bot_servo[1][3], SERVO_HOME_POSITIONS[last[1]],
                                        SERVO_RANGES[last[1]].min, SERVO_RANGES[last[1]].max)

\* The idle thread of GestureController begins a cycle with both moves to send,
\* sends them in order and then ends the cycle
NaturalCycleOrder ==
    /\ (bot_pc["idle"] # "move" /\ bot_pc'["idle"] = "move") => Len(bot_servo') = 2
    /\ (bot_pc["idle"] = "move" /\ bot_servo' # bot_servo) =>
          /\ bot_servo' = Tail(bot_servo)
          /\ bot_pc'["idle"] = IF bot_servo' = <<>> THEN "while" ELSE "move"

\* C29: an idle cycle that is not held off sends exactly two commands for one
\* servo: a target within 15 degrees of the servo's rest angle and inside its
\* safe range, then the rest angle itself.
C29_IdleCycleTwoCommands ==
    [][ /\ IdleCycleCommands' /\ IdleCycleOrder
        /\ NaturalCycle' /\ NaturalCycleOrder ]_vars

\* the second command of a cycle: the head is sent back to 90 after a target
C29_Witness ==
    /\ IdleSending("while")
    /\ pc["idle"] = "send_ack"
    /\ idle_servo = "head"
    /\ wire.src = "idle"
    /\ wire.cmd = Move("head", 90)
    /\ ~wire.locked

\* C30: the idle thread only reads the shared flags. No step of an idle loop
\* changes conversation_locked or the running flag; conversation_locked is
\* changed only by steps of main(), and the running flags only by the start
\* and stop operations.
C30_IdleOnlyReadsFlags ==
    [][ /\ (IdleStep \/ BotIdleStep) =>
              UNCHANGED <<conversation_locked, idle_animation_running, gc_running>>
        /\ conversation_locked' # conversation_locked =>
              pc'["main"] # pc["main"] /\ pc'["idle"] = pc["idle"]
        /\ idle_animation_running' # idle_animation_running =>
              start_idle_animations \/ stop_idle_animations
        /\ gc_running' # gc_running =>
              \/ bot_start_idle_animations
              \/ \E r \in {"return", "shutdown_neutral"} : bot_stop_idle_animations(r) ]_vars

\* the idle thread stands at its lock test while main() holds the lock
C30_Witness ==
    /\ pc["idle"] = "check_lock"
    /\ conversation_locked
    /\ idle_animation_running
    /\ arduino = "open"
    /\ wire.src = "idle"

\* Loops of _idle_animation_loop that have not returned
LiveLoops == (IF IdleLoopLive THEN 1 ELSE 0) + Len(gc_orphans)

\* C31: after any sequence of start and stop calls at most one idle animation
\* loop is live: with the animations running (the flag set), the only loop that
\* has not returned is the one start created last.
C31_AtMostOneIdleLoop == gc_running => LiveLoops <= 1

\* C31, first part: a start issued while the animations run creates no thread.
C31_StartWhileRunningNoThread ==
    [][ (bot_start_idle_animations_call /\ gc_running) =>
            UNCHANGED <<gc_running, gc_thread, gc_orphans, bot_pc["idle"], bot_servo>> ]_vars

\* C32: the acknowledgment a send reports is the device's reply to that same
\* command: the line a send reads is never a greeting line or the reply to an
\* earlier command.
C32_AckIsOwnReply == ser_ack.kind \in {"line", "raised"} => ser_ack.of = ser_ack.cmd

\* The idle thread of src/rufus.py has called the first send_command of a
\* movement and not yet the second
OffsetIssued == IdleSending("hold") \/ pc["idle"] = "hold"

\* The idle thread of GestureController has called the first move_servo of
\* natural_movement and not yet the second
BotOffsetIssued == bot_pc["idle"] = "move" /\ Len(bot_servo) = 1

\* C33: an idle movement is never left half done. Once the idle thread has
\* issued the offset command of a joint, the next command it issues is the
\* return to rest of that joint, whatever the flags are and whether or not the
\* first send wrote its line; it reaches the while test or ends only from
\* outside a movement or from the send of that return.
C33_IdleMoveCompleted ==
    [][ /\ (OffsetIssued /\ ~OffsetIssued') =>
              /\ pc'["idle"] = "send_write"
              /\ ret'["idle"] = "while"
              /\ cmd'["idle"] = Move(idle_servo, SERVO_LIMITS[idle_servo].rest)
        /\ OffsetIssued => idle_servo' = idle_servo
        /\ (pc'["idle"] \in {"while", "done"} /\ pc'["idle"] # pc["idle"]) =>
              \/ IdleSending("while")
              \/ pc["idle"] \in {"unstarted", "while", "sleep", "check_lock"}
        /\ (BotOffsetIssued /\ ~BotOffsetIssued') =>
              /\ bot_servo' = <<>>
              /\ bot_pc'["idle"] = "while"
              /\ bot_servo[1] = Move(bot_servo[1][1], SERVO_HOME_POSITIONS[bot_servo[1][1]])
        /\ (bot_pc["idle"] = "move" /\ Len(bot_servo) = 2 /\ bot_servo' # bot_servo) =>
              /\ BotOffsetIssued'
              /\ bot_servo'[1][1] = bot_servo[1][1]
        /\ (bot_pc'["idle"] \in {"while", "done"} /\ bot_pc'["idle"] # bot_pc["idle"]) =>
              \/ BotOffsetIssued
              \/ bot_pc["idle"] \in {"unstarted", "while", "sleep"} ]_vars

\* the return to rest is being sent although stop was requested and the lock
\* set after the offset command went out
C33_Witness ==
    /\ pc["idle"] = "send_write"
    /\ ret["idle"] = "while"
    /\ cmd["idle"] = Move(idle_servo, SERVO_LIMITS[idle_servo].rest)
    /\ ~idle_animation_running
    /\ conversation_locked
    /\ wire.src = "idle"
    /\ wire.cmd[1] = idle_servo
    /\ ~wire.locked

\* The gestures GestureController builds from move_servo calls
MoveGestures == {"head_tilt", "thinking", "wave", "excited"}

\* The command c, if it is a move, has its angle within lo..hi of its servo
MoveWithin(c, ranges) ==
    IsMove(c) => /\ c[1] \in Servos
                 /\ ranges[c[1]].min <= c[3]
                 /\ c[3] <= ranges[c[1]].max

\* C34: every angle commanded by a predefined gesture (head_tilt, thinking,
\* wave, excited) lies within SERVO_RANGES of its servo, and every angle
\* commanded by natural_movements within SERVO_LIMITS of its servo: the moves
\* still to send, the move being sent and the move last written.
C34_ForegroundAnglesInRange ==
    /\ (bot_op.kind = "perform_gesture" /\ bot_op.arg[1] \in MoveGestures) =>
          /\ \A i \in 1..Len(bot_steps) : MoveWithin(bot_steps[i], SERVO_RANGES)
          /\ (bot_wire.src = "main" /\ bot_writes > 0) => MoveWithin(bot_wire.cmd, SERVO_RANGES)
    /\ \A i \in 1..Len(movements) : IsMove(movements[i]) /\ MoveWithin(movements[i], SERVO_LIMITS)
    /\ MoveWithin(cmd["main"], SERVO_LIMITS)
    /\ wire.src = "main" => MoveWithin(wire.cmd, SERVO_LIMITS)

\* a move of the excited gesture is on the wire
C34_Witness ==
    /\ bot_op = [kind |-> "perform_gesture", arg |-> <<"excited">>]
    /\ bot_writes > 0
    /\ bot_wire.src = "main"
    /\ bot_wire.cmd = Move("right_arm", 150)
    /\ Len(bot_steps) = 10

\* The entries after the system prompt are user, assistant, user, ...
Alternates(msgs) ==
    \A i \in 2..Len(msgs) : msgs[i].role = IF i % 2 = 0 THEN "user" ELSE "assistant"

\* The entries removed are a user message and the response to it
UserAndResponse(pair) ==
    /\ Len(pair) = 2
    /\ pair[1].role = "user"
    /\ pair[2].role = "assistant"
    /\ pair[2].turn = pair[1].turn

\* C35: whenever add_message trims the history, the two entries it removes
\* are the oldest user message and the assistant response to it, and after
\* any sequence of get_response calls, failed ones included, the entries
\* after the system prompt alternate user, assistant starting with a user.
C35_TrimKeepsAlternation ==
    /\ messages[1] = SystemMessage
    /\ Alternates(messages)
    /\ conv_removed # <<>> => UserAndResponse(conv_removed)

\* C35 with every request successful: a get_response that returns a message on
\* a history that alternates and ends with a response leaves such a history,
\* and what it trims is the oldest user message with its response.
C35_HoldsWhileRequestsSucceed ==
    [][ ( /\ Alternates(messages)
          /\ Len(messages) % 2 = 1
          /\ conv_result' = "message" ) =>
        ( /\ Alternates(messages')
          /\ Len(messages') % 2 = 1
          /\ conv_removed' # <<>> =>
                /\ UserAndResponse(conv_removed')
                /\ conv_removed' = SubSeq(messages, 2, 3) ) ]_vars

\* C36: after any sequence of add_to_memory and clear_memory calls the
\* history starts with the system prompt, holds at most 1 + 2 * MAX_TURNS
\* entries, and the entries after the system prompt are the most recent
\* question/answer pairs (all of them up to MAX_TURNS) in the order added.
C36_MemoryKeepsRecentPairs ==
    LET n == Len(mem_log)
        k == Min(n, MAX_TURNS)
    IN  /\ conversation_history[1] = SystemEntry
        /\ Len(conversation_history) <= 1 + 2 * MAX_TURNS
        /\ Len(conversation_history) = 1 + 2 * k
        /\ \A i \in 1..k :
              /\ conversation_history[2 * i] =
                    [role |-> "user", content |-> mem_log[n - k + i][1]]
              /\ conversation_history[2 * i + 1] =
                    [role |-> "assistant", content |-> mem_log[n - k + i][2]]

\* the eleventh pair was added and the trim dropped the first, which differed
\* from the second
C36_Witness ==
    /\ Len(mem_log) = MAX_TURNS + 1
    /\ Len(conversation_history) = 1 + 2 * MAX_TURNS
    /\ mem_log[1][1] = "q1"
    /\ mem_log[2][1] = "q2"
    /\ conversation_history[2].content = "q2"

\* C24: the tag of the conversation is mapped by a fixed table: yes performs
\* nod, no performs shake, and every other value performs rest.
C24_TagTable ==
    \A h \in Handlers :
       (api_req[h].kind = "chat" /\ api_pc[h] \in {"gesture", "respond"}) =>
          api_req[h].arg[1] = CASE api_req[h].arg[2] = "yes" -> "nod"
                                [] api_req[h].arg[2] = "no" -> "shake"
                                [] OTHER -> "rest"

\* C6: once stop_idle_animations has returned, the idle thread has left its
\* loop, and no line on the wire is one it wrote after that return.
C6_StopTerminatesIdle ==
    /\ BotStopReturned => bot_pc["idle"] = "done"
    /\ bot_wire.src = "idle" => ~bot_wire.after_stop

--------------------------------------------------------------------------
(* Claims about src/pi_api_server.py *)

\* C4: the lines of one perform_gesture are contiguous on the wire: no line
\* of a gesture follows a line of another handler's gesture still in progress.
C4_GestureStepsContiguous == api_wire.contiguous

--------------------------------------------------------------------------
\* C15: a send that wrote its line and found no acknowledgment waiting returns
\* True.
C15_NoAckStillSuccess ==
    \A h \in Handlers :
        (api_pc[h] = "respond" /\ api_req[h].kind = "servo" /\ api_wrote[h]
           /\ api_ack[h].kind = "nothing")
          => api_result[h] = "True"

C15_Witness ==
    \E h \in Handlers :
        /\ api_pc[h] = "respond"
        /\ api_req[h] = [kind |-> "servo", arg |-> <<"left_arm", 90>>]
        /\ api_wrote[h] /\ api_ack[h].kind = "nothing"
        /\ api_result[h] = "True"
        /\ api_wire.line = PinLine(4, 90)

\* C16: a send that wrote its line and read a non-empty reply line returns
\* True, whether the line starts with OK or not.
C16_AnyReplyIsSuccess ==
    \A h \in Handlers :
        (api_pc[h] = "respond" /\ api_req[h].kind = "servo" /\ api_wrote[h]
           /\ api_ack[h].kind = "line" /\ api_ack[h].line # <<>>)
          => api_result[h] = "True"

--------------------------------------------------------------------------
(* Claims about both perform_gesture functions *)

\* C7: perform_gesture called with a name that is not in the gesture table
\* returns False and writes no line, in GestureController and in the API server.
C7_UnknownGestureNoWrites ==
    /\ (bot_op.kind = "perform_gesture" /\ bot_op.arg[1] \notin BotGestures)
          => (bot_result = "False" /\ bot_writes = 0)
    /\ \A h \in Handlers :
          (api_req[h].kind = "gesture" /\ api_req[h].arg[1] \notin DOMAIN GESTURES)
             => (api_result[h] = "False" /\ ~api_wrote[h])

\* C14: with no serial link (the connection failed at startup) perform_gesture
\* of every gesture of the table returns True and nothing is ever written.
C14_NoLinkGestureSucceeds ==
    /\ connection = "none" =>
          /\ bot_wire = NoBotWrite
          /\ (bot_op.kind = "perform_gesture" /\ bot_op.arg[1] \in BotGestures
                 /\ bot_pc["main"] = "return")
                => (bot_result = "True" /\ bot_writes = 0)
    /\ api_arduino = "none" =>
          /\ api_wire = NoApiWrite
          /\ \A h \in Handlers :
                (api_req[h].kind = "gesture" /\ api_req[h].arg[1] \in DOMAIN GESTURES
                   /\ api_pc[h] = "respond")
                  => (api_result[h] = "True" /\ ~api_wrote[h])

C14_Witness ==
    /\ api_arduino = "none"
    /\ \E h \in Handlers :
          /\ api_req[h] = [kind |-> "gesture", arg |-> <<"nod">>]
          /\ api_pc[h] = "respond"
          /\ api_result[h] = "True" /\ api_failed[h]

C7_Witness ==
    \/ /\ bot_op = [kind |-> "perform_gesture", arg |-> <<"nod">>]
       /\ bot_pc["main"] = "return" /\ bot_result = "False"
       /\ connection = "open" /\ bot_wire.src = "main"
    \/ /\ \E h \in Handlers :
             /\ api_req[h] = [kind |-> "gesture", arg |-> <<"yes">>]
             /\ api_pc[h] = "respond" /\ api_result[h] = "False"
       /\ api_arduino = "open" /\ api_wire.kind = "gesture"

--------------------------------------------------------------------------
(* Claims about the clamping step *)


\* C8: the clamped angle lies in the servo's range, and an angle already in
\* the range is left as it is; for the step of rufus.py over every integer of
\* the bound and for the step of natural_movement over every target it computes.
C8_ClampInRangeAndIdentity ==
    clamp_done =>
        LET lo == IF clamp_loop = "natural_movement" THEN SERVO_RANGES[clamp_servo].min
                  ELSE SERVO_LIMITS[clamp_servo].min
            hi == IF clamp_loop = "natural_movement" THEN SERVO_RANGES[clamp_servo].max
                  ELSE SERVO_LIMITS[clamp_servo].max
        IN  /\ clamp_res >= lo
            /\ clamp_res <= hi
            /\ (clamp_arg >= lo /\ clamp_arg <= hi) => clamp_res = clamp_arg

C8_Witness ==
    /\ clamp_done
    /\ clamp_loop = "idle_animation_loop"
    /\ clamp_servo = "left_arm"
    /\ clamp_arg \in IdleTargets("left_arm")
    /\ clamp_arg = 95
    /\ clamp_res = 80

====
